---- MODULE Spec2Model ----
(***************************************************************************)
(* Model of the admin backend's Lambda handler (admin/admin-backend/       *)
(* index.mjs): wallet-signature authentication with one-time nonces,       *)
(* bearer tokens kept in one DynamoDB table, and the campaign document     *)
(* kept in S3.                                                             *)
(*                                                                         *)
(* Strings the code transforms (addresses, messages, signatures, the       *)
(* ALLOWLIST variable) are sequences of one-character strings, so that     *)
(* toLowerCase, trim, split and template concatenation are computed.       *)
(* sha256 and base64 are modelled as injective: a digest or an encoding is *)
(* represented by the text it was computed from.  crypto.randomBytes(32)   *)
(* is modelled as a value never drawn before.                              *)
(***************************************************************************)
EXTENDS Integers, Sequences, FiniteSets, TLC

VARIABLES
    env,          \* process.env.ALLOWLIST, the text of the variable
    ALLOWLIST,    \* the cached allowlist (index.mjs:43)
    now,          \* Date.now(), in milliseconds
    ticks,        \* how many times the clock has advanced
    table,        \* the DynamoDB table: token and nonce items
    s3Object,     \* the campaign document in S3
    randomDraws,  \* how many times crypto.randomBytes has been drawn
    issued,       \* the tokens returned in a 200 response of /auth
    nonceWritten, \* the nonces ever put into the table
    inflight      \* the invocations of the handler that are under way

vars == <<env, ALLOWLIST, now, ticks, table, s3Object, randomDraws, issued,
          nonceWritten, inflight>>

----------------------------------------------------------------------------
(* Bounds of the model *)

MaxTicks == 2
MaxDays == 9
MaxTokens == 2
MaxInflight == 2

----------------------------------------------------------------------------
(* Program constants *)

TOKEN_MAX_AGE_MS == 86400000
TOKEN_TTL_SECONDS == 86400
NONCE_TTL_SECONDS == 604800

StartTime == 1500
DayMs == 24 * 60 * 60 * 1000
ClockHorizon == StartTime + MaxDays * DayMs

----------------------------------------------------------------------------
(* Strings *)

LowerChar(c) ==
    CASE c = "A" -> "a" [] c = "B" -> "b" [] c = "C" -> "c"
      [] c = "D" -> "d" [] c = "E" -> "e" [] c = "F" -> "f"
      [] c = "S" -> "s" [] c = "X" -> "x"
      [] OTHER -> c

\* String.prototype.toLowerCase
toLowerCase(s) == [i \in 1..Len(s) |-> LowerChar(s[i])]

\* String.prototype.trim
RECURSIVE trim(_)
trim(s) ==
    IF s = <<>> THEN s
    ELSE IF Head(s) = " " THEN trim(Tail(s))
    ELSE IF s[Len(s)] = " " THEN trim(SubSeq(s, 1, Len(s) - 1))
    ELSE s

\* String.prototype.split(','): the pieces between the commas
RECURSIVE split(_)
split(s) ==
    IF \A i \in 1..Len(s) : s[i] # ","
    THEN <<s>>
    ELSE LET k == CHOOSE i \in 1..Len(s) :
                      s[i] = "," /\ \A j \in 1..(i - 1) : s[j] # ","
         IN  <<SubSeq(s, 1, k - 1)>> \o split(SubSeq(s, k + 1, Len(s)))

\* Array.prototype.includes
includes(xs, x) == \E i \in 1..Len(xs) : xs[i] = x

----------------------------------------------------------------------------
(* The allowlist *)

NonEmpty(addr) == Len(addr) > 0

getAllowlist(allowlistStr) ==
    IF allowlistStr = <<>>
    THEN <<>>
    ELSE LET trimmed == [i \in 1..Len(split(allowlistStr)) |->
                             trim(split(allowlistStr)[i])]
             kept == SelectSeq(trimmed, NonEmpty)
         IN  [i \in 1..Len(kept) |-> toLowerCase(kept[i])]

----------------------------------------------------------------------------
(* Wallets and ethers.utils.verifyMessage *)

\* The signature a wallet holding `key` produces over `message`.
Sign(key, message) == <<"S", key>> \o message

\* The checksummed (mixed case) address of `key`.
AddressOf(key) == <<"0", "x", key, LowerChar(key)>>

\* What recovery yields when the signature was made over other text.
UnrelatedAddress == <<"0", "x", "E", "e">>

WellFormedSignature(signature) == Len(signature) >= 2 /\ signature[1] = "S"

\* ethers.utils.verifyMessage: throws on a malformed signature, recovers the
\* signer's address from a signature over `message`, and some unrelated
\* address from a well-formed signature over anything else.
verifyMessage(message, signature) ==
    IF ~WellFormedSignature(signature)
    THEN [threw |-> TRUE, address |-> <<>>]
    ELSE IF SubSeq(signature, 3, Len(signature)) = message
    THEN [threw |-> FALSE, address |-> AddressOf(signature[2])]
    ELSE [threw |-> FALSE, address |-> UnrelatedAddress]

----------------------------------------------------------------------------
(* The DynamoDB table *)

Key(item) == <<item.pk, item.sk>>

\* GetCommand: the items under the key (none or one).
GetItem(tbl, pk, sk) == {item \in tbl : Key(item) = <<pk, sk>>}

\* PutCommand: replaces the item under the same key.
PutItem(tbl, item) == {i \in tbl : Key(i) # Key(item)} \cup {item}

\* DeleteCommand
DeleteItem(tbl, pk, sk) == {i \in tbl : Key(i) # <<pk, sk>>}

TokenPk(token) == <<"TOKEN#", token>>
NoncePk(nonce) == <<"NONCE#", nonce>>

\* Which store calls of one request fail.  A call that is not issued ignores
\* its entry.
NoFaults ==
    [nonceGet |-> FALSE, noncePut |-> FALSE, tokenPut |-> FALSE,
     tokenGet |-> FALSE, tokenDelete |-> FALSE, s3Get |-> FALSE, s3Put |-> FALSE]

\* The message of the error a failed store call throws.
StoreError == "ServiceUnavailable"

----------------------------------------------------------------------------
(* Tokens *)

\* Buffer.from(`${address}:${timestamp}:${random}`).toString('base64')
\* A token string built without the random bytes.
TokenStringWithoutRandom(address, timestamp, random) == <<address, timestamp, 0>>

TokenString(address, timestamp, random) == <<address, timestamp, random>>

\* A token item that stores the address as it was claimed.
TokenItemWithClaimedCase(token, address, timestamp) ==
    [pk |-> TokenPk(token), sk |-> "TOKEN", address |-> address,
     timestamp |-> timestamp, ttl |-> (timestamp \div 1000) + TOKEN_TTL_SECONDS]

TokenItem(token, address, timestamp) ==
    [pk |-> TokenPk(token), sk |-> "TOKEN",
     address |-> toLowerCase(address),
     timestamp |-> timestamp,
     ttl |-> (timestamp \div 1000) + TOKEN_TTL_SECONDS]

\* generateToken: the token, and the table after the put; throws when the
\* put fails.
generateToken(tbl, address, t, random, faults) ==
    LET token == TokenString(address, t, random)
    IN  IF faults.tokenPut
        THEN [threw |-> TRUE, token |-> <<>>, table |-> tbl,
              message |-> "DynamoDB error storing token: " \o StoreError]
        ELSE [threw |-> FALSE, token |-> token,
              table |-> PutItem(tbl, TokenItem(token, address, t)),
              message |-> ""]

\* Whether a stored token item is past its 24 hours at time t.
\* An expiry test that already rejects a token at exactly the maximum age.
TokenExpiredAtMaxAge(item, t) == t - item.timestamp >= TOKEN_MAX_AGE_MS

TokenExpired(item, t) == t - item.timestamp > TOKEN_MAX_AGE_MS

\* A verifyToken that rejects an expired token and leaves its item in the
\* table.
verifyTokenLeavingExpired(tbl, token, t, faults) ==
    LET found == GetItem(tbl, TokenPk(token), "TOKEN")
        item == CHOOSE i \in found : TRUE
    IN  IF faults.tokenGet
        THEN [address |-> <<>>, table |-> tbl, calls |-> <<"tokenGet">>]
        ELSE IF found = {}
        THEN [address |-> <<>>, table |-> tbl, calls |-> <<"tokenGet">>]
        ELSE IF TokenExpired(item, t)
        THEN [address |-> <<>>, table |-> tbl, calls |-> <<"tokenGet">>]
        ELSE [address |-> toLowerCase(item.address), table |-> tbl,
              calls |-> <<"tokenGet">>]

\* A verifyToken that accepts an expired token when its delete fails.
verifyTokenAcceptingWhenDeleteFails(tbl, token, t, faults) ==
    LET found == GetItem(tbl, TokenPk(token), "TOKEN")
        item == CHOOSE i \in found : TRUE
    IN  IF faults.tokenGet
        THEN [address |-> <<>>, table |-> tbl, calls |-> <<"tokenGet">>]
        ELSE IF found = {}
        THEN [address |-> <<>>, table |-> tbl, calls |-> <<"tokenGet">>]
        ELSE IF TokenExpired(item, t) /\ ~faults.tokenDelete
        THEN [address |-> <<>>,
              table |-> DeleteItem(tbl, TokenPk(token), "TOKEN"),
              calls |-> <<"tokenGet", "tokenDelete">>]
        ELSE [address |-> toLowerCase(item.address), table |-> tbl,
              calls |-> IF TokenExpired(item, t) THEN <<"tokenGet", "tokenDelete">>
                        ELSE <<"tokenGet">>]

\* verifyToken: the address bound to the token (<<>> for null), the table
\* afterwards and the store calls issued.
verifyToken(tbl, token, t, faults) ==
    LET found == GetItem(tbl, TokenPk(token), "TOKEN")
        item == CHOOSE i \in found : TRUE
    IN  IF faults.tokenGet
        THEN [address |-> <<>>, table |-> tbl, calls |-> <<"tokenGet">>]
        ELSE IF found = {}
        THEN [address |-> <<>>, table |-> tbl, calls |-> <<"tokenGet">>]
        ELSE IF TokenExpired(item, t)
        THEN [address |-> <<>>,
              table |-> IF faults.tokenDelete THEN tbl
                        ELSE DeleteItem(tbl, TokenPk(token), "TOKEN"),
              calls |-> <<"tokenGet", "tokenDelete">>]
        ELSE [address |-> toLowerCase(item.address), table |-> tbl,
              calls |-> <<"tokenGet">>]

----------------------------------------------------------------------------
(* Nonces *)

\* generateNonce: sha256 of `${message}:${signature}`
generateNonce(message, signature) == message \o <<":">> \o signature

\* isNonceUsed: throws when the lookup fails.
\* A nonce lookup that answers "unused" when the store command throws.
isNonceUsedTreatingErrorAsUnused(tbl, nonce, faults) ==
    IF faults.nonceGet
    THEN [threw |-> FALSE, used |-> FALSE, message |-> ""]
    ELSE [threw |-> FALSE, used |-> GetItem(tbl, NoncePk(nonce), "NONCE") # {},
          message |-> ""]

\* A nonce lookup that reads the key of a token item.
isNonceUsedReadingTokenKey(tbl, nonce, faults) ==
    IF faults.nonceGet
    THEN [threw |-> TRUE, used |-> FALSE,
          message |-> "DynamoDB error checking nonce: " \o StoreError]
    ELSE [threw |-> FALSE, used |-> GetItem(tbl, NoncePk(nonce), "TOKEN") # {},
          message |-> ""]

isNonceUsed(tbl, nonce, faults) ==
    IF faults.nonceGet
    THEN [threw |-> TRUE, used |-> FALSE,
          message |-> "DynamoDB error checking nonce: " \o StoreError]
    ELSE [threw |-> FALSE, used |-> GetItem(tbl, NoncePk(nonce), "NONCE") # {},
          message |-> ""]

NonceItem(nonce, address, t) ==
    [pk |-> NoncePk(nonce), sk |-> "NONCE",
     address |-> toLowerCase(address),
     timestamp |-> t,
     ttl |-> (t \div 1000) + NONCE_TTL_SECONDS]

\* A markNonceUsed that keys the item by the address instead of the nonce.
markNonceUsedKeyedByAddress(tbl, nonce, address, t, faults) ==
    IF faults.noncePut
    THEN [threw |-> TRUE, table |-> tbl]
    ELSE [threw |-> FALSE, table |-> PutItem(tbl, NonceItem(address, address, t))]

\* markNonceUsed: rethrows when the put fails.
markNonceUsed(tbl, nonce, address, t, faults) ==
    IF faults.noncePut
    THEN [threw |-> TRUE, table |-> tbl]
    ELSE [threw |-> FALSE, table |-> PutItem(tbl, NonceItem(nonce, address, t))]

----------------------------------------------------------------------------
(* verifySignature *)

Rejected(reason, error, tbl, calls) ==
    [valid |-> FALSE, reason |-> reason, error |-> error,
     table |-> tbl, calls |-> calls]

\* A verifySignature that tests the allowlist before it recovers the signer.
verifySignatureAllowlistFirst(tbl, address, message, signature, t, faults) ==
    LET nonce == generateNonce(message, signature)
        lookup == isNonceUsed(tbl, nonce, faults)
        recovered == verifyMessage(message, signature)
        marked == markNonceUsed(tbl, nonce, address, t, faults)
    IN  IF lookup.threw
        THEN Rejected("verification_error", "Database error: " \o lookup.message,
                      tbl, <<"nonceGet">>)
        ELSE IF lookup.used
        THEN Rejected("signature_already_used", "", tbl, <<"nonceGet">>)
        ELSE IF ~includes(ALLOWLIST, toLowerCase(address))
        THEN Rejected("address_not_authorized", "", tbl, <<"nonceGet">>)
        ELSE IF recovered.threw
        THEN Rejected("verification_error", "invalid signature string",
                      tbl, <<"nonceGet">>)
        ELSE IF toLowerCase(recovered.address) # toLowerCase(address)
        THEN Rejected("invalid_signature", "", tbl, <<"nonceGet">>)
        ELSE [valid |-> TRUE, reason |-> "", error |-> "",
              table |-> marked.table, calls |-> <<"nonceGet", "noncePut">>]

\* A verifySignature that rejects the sign-in when the nonce item cannot be put.
verifySignatureFailingOnMarkError(tbl, address, message, signature, t, faults) ==
    LET nonce == generateNonce(message, signature)
        lookup == isNonceUsed(tbl, nonce, faults)
        recovered == verifyMessage(message, signature)
        marked == markNonceUsed(tbl, nonce, address, t, faults)
    IN  IF lookup.threw
        THEN Rejected("verification_error", "Database error: " \o lookup.message,
                      tbl, <<"nonceGet">>)
        ELSE IF lookup.used
        THEN Rejected("signature_already_used", "", tbl, <<"nonceGet">>)
        ELSE IF recovered.threw
        THEN Rejected("verification_error", "invalid signature string",
                      tbl, <<"nonceGet">>)
        ELSE IF toLowerCase(recovered.address) # toLowerCase(address)
        THEN Rejected("invalid_signature", "", tbl, <<"nonceGet">>)
        ELSE IF ~includes(ALLOWLIST, toLowerCase(address))
        THEN Rejected("address_not_authorized", "", tbl, <<"nonceGet">>)
        ELSE IF marked.threw
        THEN Rejected("verification_error", StoreError, tbl, <<"nonceGet", "noncePut">>)
        ELSE [valid |-> TRUE, reason |-> "", error |-> "",
              table |-> marked.table, calls |-> <<"nonceGet", "noncePut">>]

\* A verifySignature that takes an empty allowlist for "no restriction".
verifySignatureOpenWhenUnconfigured(tbl, address, message, signature, t, faults) ==
    LET nonce == generateNonce(message, signature)
        lookup == isNonceUsed(tbl, nonce, faults)
        recovered == verifyMessage(message, signature)
        marked == markNonceUsed(tbl, nonce, address, t, faults)
    IN  IF lookup.threw
        THEN Rejected("verification_error", "Database error: " \o lookup.message,
                      tbl, <<"nonceGet">>)
        ELSE IF lookup.used
        THEN Rejected("signature_already_used", "", tbl, <<"nonceGet">>)
        ELSE IF recovered.threw
        THEN Rejected("verification_error", "invalid signature string",
                      tbl, <<"nonceGet">>)
        ELSE IF toLowerCase(recovered.address) # toLowerCase(address)
        THEN Rejected("invalid_signature", "", tbl, <<"nonceGet">>)
        ELSE IF Len(ALLOWLIST) > 0 /\ ~includes(ALLOWLIST, toLowerCase(address))
        THEN Rejected("address_not_authorized", "", tbl, <<"nonceGet">>)
        ELSE [valid |-> TRUE, reason |-> "", error |-> "",
              table |-> marked.table, calls |-> <<"nonceGet", "noncePut">>]

\* A verifySignature that records the nonce as soon as the lookup reports it
\* unused, before the signature and the allowlist are checked.
verifySignatureMarkingFirst(tbl, address, message, signature, t, faults) ==
    LET nonce == generateNonce(message, signature)
        lookup == isNonceUsed(tbl, nonce, faults)
        recovered == verifyMessage(message, signature)
        marked == markNonceUsed(tbl, nonce, address, t, faults)
    IN  IF lookup.threw
        THEN Rejected("verification_error", "Database error: " \o lookup.message,
                      tbl, <<"nonceGet">>)
        ELSE IF lookup.used
        THEN Rejected("signature_already_used", "", tbl, <<"nonceGet">>)
        ELSE IF recovered.threw
        THEN Rejected("verification_error", "invalid signature string",
                      marked.table, <<"nonceGet", "noncePut">>)
        ELSE IF toLowerCase(recovered.address) # toLowerCase(address)
        THEN Rejected("invalid_signature", "", marked.table, <<"nonceGet", "noncePut">>)
        ELSE IF ~includes(ALLOWLIST, toLowerCase(address))
        THEN Rejected("address_not_authorized", "", marked.table,
                      <<"nonceGet", "noncePut">>)
        ELSE [valid |-> TRUE, reason |-> "", error |-> "",
              table |-> marked.table, calls |-> <<"nonceGet", "noncePut">>]

verifySignature(tbl, address, message, signature, t, faults) ==
    LET nonce == generateNonce(message, signature)
        lookup == isNonceUsed(tbl, nonce, faults)
        recovered == verifyMessage(message, signature)
        marked == markNonceUsed(tbl, nonce, address, t, faults)
    IN  IF lookup.threw
        THEN Rejected("verification_error", "Database error: " \o lookup.message,
                      tbl, <<"nonceGet">>)
        ELSE IF lookup.used
        THEN Rejected("signature_already_used", "", tbl, <<"nonceGet">>)
        ELSE IF recovered.threw
        THEN Rejected("verification_error", "invalid signature string",
                      tbl, <<"nonceGet">>)
        ELSE IF toLowerCase(recovered.address) # toLowerCase(address)
        THEN Rejected("invalid_signature", "", tbl, <<"nonceGet">>)
        ELSE IF ~includes(ALLOWLIST, toLowerCase(address))
        THEN Rejected("address_not_authorized", "", tbl, <<"nonceGet">>)
        ELSE [valid |-> TRUE, reason |-> "", error |-> "",
              table |-> marked.table, calls |-> <<"nonceGet", "noncePut">>]

----------------------------------------------------------------------------
(* JavaScript values of a request body or a campaign record.  A value is a  *)
(* tuple whose first element is its kind:                                   *)
(*   <<"undefined">>          the field is absent                           *)
(*   <<"string", s>>          a string that is neither a number nor a date  *)
(*   <<"numstring", n>>       the string spelling the number n              *)
(*   <<"datestring", d, ms>>  the ISO string of day d, ms after 00:00 UTC   *)
(*   <<"number", n>>          the number n                                  *)
(*   <<"NaN">>                the number NaN                                *)

Undefined == <<"undefined">>
Str(s) == <<"string", s>>
NumStr(n) == <<"numstring", n>>
DateStr(d, ms) == <<"datestring", d, ms>>
Num(n) == <<"number", n>>
NaN == <<"NaN">>

CampaignFields == {"id", "token_address", "total_amount", "start_date",
                   "end_date", "status"}

\* `field in data`
HasField(data, field) == data[field] # Undefined

\* Truthiness of a value (!!v)
Truthy(v) ==
    CASE v[1] = "undefined" -> FALSE
      [] v[1] = "string" -> v[2] # ""
      [] v[1] = "number" -> v[2] # 0
      [] v[1] = "NaN" -> FALSE
      [] OTHER -> TRUE

\* a !== b
StrictNotEqual(a, b) == a = NaN \/ b = NaN \/ a # b

\* a === b
StrictEqual(a, b) == ~StrictNotEqual(a, b)

\* parseFloat(v)
parseFloat(v) ==
    CASE v[1] = "number" -> v
      [] v[1] = "numstring" -> Num(v[2])
      [] OTHER -> NaN

\* x <= 0 for a number value x
LessOrEqualZero(x) == x # NaN /\ x[2] <= 0

\* new Date(v): a time value in ms, or an Invalid Date
InvalidDate == [valid |-> FALSE, time |-> 0]
NewDate(v) ==
    CASE v[1] = "datestring" -> [valid |-> TRUE, time |-> v[2] * DayMs + v[3]]
      [] v[1] = "number" -> [valid |-> TRUE, time |-> v[2]]
      [] OTHER -> InvalidDate

\* date.setUTCHours(0, 0, 0, 0)
setUTCHours0(date) ==
    IF date.valid
    THEN [valid |-> TRUE, time |-> (date.time \div DayMs) * DayMs]
    ELSE date

\* a <= b on Date objects (false when either is invalid)
DateLessOrEqual(a, b) == a.valid /\ b.valid /\ a.time <= b.time

\* new Date() at time t, with the time of day stripped
Today(t) == setUTCHours0([valid |-> TRUE, time |-> t])

----------------------------------------------------------------------------
(* Campaign rules *)

NoCampaign == [f \in CampaignFields |-> Undefined]

\* What a call returns or throws: `truthy` tells a returned record or true
\* from a returned null or false.
Ok(value) == [threw |-> FALSE, message |-> "", truthy |-> TRUE, value |-> value]
Falsy == [threw |-> FALSE, message |-> "", truthy |-> FALSE, value |-> NoCampaign]
Throw(message) ==
    [threw |-> TRUE, message |-> message, truthy |-> FALSE, value |-> NoCampaign]

RequiredFields == <<"id", "token_address", "total_amount", "start_date", "end_date">>

\* A validateCampaign that lets a campaign end at the instant it starts.
validateCampaignAllowingEqualDates(data) ==
    LET start == NewDate(data.start_date)
        end == NewDate(data.end_date)
    IN  IF \E i \in 1..Len(RequiredFields) : ~HasField(data, RequiredFields[i])
        THEN Throw("Missing required field")
        ELSE IF ~start.valid \/ ~end.valid \/ end.time < start.time
        THEN Throw("end_date must be after start_date and valid dates")
        ELSE IF LessOrEqualZero(parseFloat(data.total_amount))
        THEN Throw("total_amount must be positive")
        ELSE Ok([id |-> data.id,
                 token_address |-> data.token_address,
                 total_amount |-> parseFloat(data.total_amount),
                 start_date |-> data.start_date,
                 end_date |-> data.end_date,
                 status |-> IF Truthy(data.status) THEN data.status
                            ELSE Str("active")])

validateCampaign(data) ==
    LET start == NewDate(data.start_date)
        end == NewDate(data.end_date)
    IN  IF \E i \in 1..Len(RequiredFields) : ~HasField(data, RequiredFields[i])
        THEN Throw("Missing required field")
        ELSE IF ~start.valid \/ ~end.valid \/ DateLessOrEqual(end, start)
        THEN Throw("end_date must be after start_date and valid dates")
        ELSE IF LessOrEqualZero(parseFloat(data.total_amount))
        THEN Throw("total_amount must be positive")
        ELSE Ok([id |-> data.id,
                 token_address |-> data.token_address,
                 total_amount |-> parseFloat(data.total_amount),
                 start_date |-> data.start_date,
                 end_date |-> data.end_date,
                 status |-> IF Truthy(data.status) THEN data.status
                            ELSE Str("active")])

canEditCampaign(campaign, t) ==
    LET today == Today(t)
        startDate == setUTCHours0(NewDate(campaign.start_date))
    IN  IF campaign.status = Str("completed") THEN FALSE
        ELSE IF DateLessOrEqual(startDate, today) THEN FALSE
        ELSE TRUE

\* A canDeleteCampaign that looks at the start date alone.
canDeleteCampaignIgnoringStatus(campaign, t) ==
    LET today == Today(t)
        startDate == setUTCHours0(NewDate(campaign.start_date))
    IN  IF DateLessOrEqual(startDate, today) THEN FALSE
        ELSE TRUE

\* A canDeleteCampaign that still allows the deletion on the start day.
canDeleteCampaignOnStartDay(campaign, t) ==
    LET today == Today(t)
        startDate == setUTCHours0(NewDate(campaign.start_date))
    IN  IF campaign.status = Str("completed") THEN FALSE
        ELSE IF startDate.valid /\ today.valid /\ startDate.time < today.time THEN FALSE
        ELSE TRUE

\* A canDeleteCampaign that looks at the status alone.
canDeleteCampaignIgnoringStartDate(campaign, t) ==
    IF campaign.status = Str("completed") THEN FALSE
    ELSE TRUE

canDeleteCampaign(campaign, t) ==
    LET today == Today(t)
        startDate == setUTCHours0(NewDate(campaign.start_date))
    IN  IF campaign.status = Str("completed") THEN FALSE
        ELSE IF DateLessOrEqual(startDate, today) THEN FALSE
        ELSE TRUE

\* campaigns.findIndex(c => c.id === campaignId): 0 when there is none
findIndex(campaigns, campaignId) ==
    IF \E i \in 1..Len(campaigns) : StrictEqual(campaigns[i].id, campaignId)
    THEN CHOOSE i \in 1..Len(campaigns) :
             /\ StrictEqual(campaigns[i].id, campaignId)
             /\ \A j \in 1..(i - 1) : ~StrictEqual(campaigns[j].id, campaignId)
    ELSE 0

\* The three operations return the call's value (or the error thrown) and the
\* loaded array as the call leaves it.
Outcome(result, campaigns) == [result |-> result, campaigns |-> campaigns]

\* A createCampaign that validates the input before it looks for the id.
createCampaignValidatingFirst(data, campaigns) ==
    LET validated == validateCampaign(data)
    IN  IF validated.threw
        THEN Outcome(validated, campaigns)
        ELSE IF findIndex(campaigns, data.id) # 0
        THEN Outcome(Throw("Campaign ID already exists"), campaigns)
        ELSE Outcome(validated, Append(campaigns, validated.value))

\* A createCampaign that puts the new campaign in front of the others.
createCampaignPrepending(data, campaigns) ==
    LET validated == validateCampaign(data)
    IN  IF findIndex(campaigns, data.id) # 0
        THEN Outcome(Throw("Campaign ID already exists"), campaigns)
        ELSE IF validated.threw
        THEN Outcome(validated, campaigns)
        ELSE Outcome(validated, <<validated.value>> \o campaigns)

createCampaign(data, campaigns) ==
    LET validated == validateCampaign(data)
    IN  IF findIndex(campaigns, data.id) # 0
        THEN Outcome(Throw("Campaign ID already exists"), campaigns)
        ELSE IF validated.threw
        THEN Outcome(validated, campaigns)
        ELSE Outcome(validated, Append(campaigns, validated.value))

StatusValues == {Str("active"), Str("paused"), Str("completed")}

\* An updateCampaign that validates the body as it came, id included.
updateCampaignTrustingBodyId(campaignId, data, campaigns, t) ==
    LET index == findIndex(campaigns, campaignId)
        existingCampaign == campaigns[index]
        today == Today(t)
        startDate == setUTCHours0(NewDate(existingCampaign.start_date))
        isActive == /\ DateLessOrEqual(startDate, today)
                    /\ existingCampaign.status # Str("completed")
        hasOtherChanges ==
            \/ StrictNotEqual(data.token_address, existingCampaign.token_address)
            \/ StrictNotEqual(data.total_amount, existingCampaign.total_amount)
            \/ StrictNotEqual(data.start_date, existingCampaign.start_date)
            \/ StrictNotEqual(data.end_date, existingCampaign.end_date)
        updated == validateCampaign(data)
    IN  IF index = 0
        THEN Outcome(Falsy, campaigns)
        ELSE IF isActive
        THEN IF Truthy(data.status) /\ data.status \in StatusValues
             THEN IF hasOtherChanges
                  THEN Outcome(Throw("Cannot change campaign fields for active campaigns. Only status can be changed."),
                               campaigns)
                  ELSE Outcome(Ok([existingCampaign EXCEPT !.status = data.status]),
                               [campaigns EXCEPT ![index].status = data.status])
             ELSE Outcome(Throw("Can only change status for active campaigns. Use pause/resume."),
                          campaigns)
        ELSE IF ~canEditCampaign(existingCampaign, t)
        THEN Outcome(Throw("Campaign cannot be edited (already started or completed)"),
                     campaigns)
        ELSE IF updated.threw
        THEN Outcome(updated, campaigns)
        ELSE Outcome(updated, [campaigns EXCEPT ![index] = updated.value])

\* An updateCampaign that sets the status of a started campaign without
\* comparing the other fields.
updateCampaignIgnoringOtherChanges(campaignId, data, campaigns, t) ==
    LET index == findIndex(campaigns, campaignId)
        existingCampaign == campaigns[index]
        today == Today(t)
        startDate == setUTCHours0(NewDate(existingCampaign.start_date))
        isActive == /\ DateLessOrEqual(startDate, today)
                    /\ existingCampaign.status # Str("completed")
        updated == validateCampaign([data EXCEPT !.id = campaignId])
    IN  IF index = 0
        THEN Outcome(Falsy, campaigns)
        ELSE IF isActive
        THEN IF Truthy(data.status) /\ data.status \in StatusValues
             THEN Outcome(Ok([existingCampaign EXCEPT !.status = data.status]),
                          [campaigns EXCEPT ![index].status = data.status])
             ELSE Outcome(Throw("Can only change status for active campaigns. Use pause/resume."),
                          campaigns)
        ELSE IF ~canEditCampaign(existingCampaign, t)
        THEN Outcome(Throw("Campaign cannot be edited (already started or completed)"),
                     campaigns)
        ELSE IF updated.threw
        THEN Outcome(updated, campaigns)
        ELSE Outcome(updated, [campaigns EXCEPT ![index] = updated.value])

\* An updateCampaign that fills the fields the body leaves out from the stored
\* record before it validates.
updateCampaignMergingTheBody(campaignId, data, campaigns, t) ==
    LET index == findIndex(campaigns, campaignId)
        existingCampaign == campaigns[index]
        today == Today(t)
        startDate == setUTCHours0(NewDate(existingCampaign.start_date))
        isActive == /\ DateLessOrEqual(startDate, today)
                    /\ existingCampaign.status # Str("completed")
        hasOtherChanges ==
            \/ StrictNotEqual(data.token_address, existingCampaign.token_address)
            \/ StrictNotEqual(data.total_amount, existingCampaign.total_amount)
            \/ StrictNotEqual(data.start_date, existingCampaign.start_date)
            \/ StrictNotEqual(data.end_date, existingCampaign.end_date)
        merged == [f \in DOMAIN data |->
                      IF f = "id" THEN campaignId
                      ELSE IF f \in CampaignFields /\ ~HasField(data, f)
                      THEN existingCampaign[f]
                      ELSE data[f]]
        updated == validateCampaign(merged)
    IN  IF index = 0
        THEN Outcome(Falsy, campaigns)
        ELSE IF isActive
        THEN IF Truthy(data.status) /\ data.status \in StatusValues
             THEN IF hasOtherChanges
                  THEN Outcome(Throw("Cannot change campaign fields for active campaigns. Only status can be changed."),
                               campaigns)
                  ELSE Outcome(Ok([existingCampaign EXCEPT !.status = data.status]),
                               [campaigns EXCEPT ![index].status = data.status])
             ELSE Outcome(Throw("Can only change status for active campaigns. Use pause/resume."),
                          campaigns)
        ELSE IF ~canEditCampaign(existingCampaign, t)
        THEN Outcome(Throw("Campaign cannot be edited (already started or completed)"),
                     campaigns)
        ELSE IF updated.threw
        THEN Outcome(updated, campaigns)
        ELSE Outcome(updated, [campaigns EXCEPT ![index] = updated.value])

updateCampaign(campaignId, data, campaigns, t) ==
    LET index == findIndex(campaigns, campaignId)
        existingCampaign == campaigns[index]
        today == Today(t)
        startDate == setUTCHours0(NewDate(existingCampaign.start_date))
        isActive == /\ DateLessOrEqual(startDate, today)
                    /\ existingCampaign.status # Str("completed")
        hasOtherChanges ==
            \/ StrictNotEqual(data.token_address, existingCampaign.token_address)
            \/ StrictNotEqual(data.total_amount, existingCampaign.total_amount)
            \/ StrictNotEqual(data.start_date, existingCampaign.start_date)
            \/ StrictNotEqual(data.end_date, existingCampaign.end_date)
        updated == validateCampaign([data EXCEPT !.id = campaignId])
    IN  IF index = 0
        THEN Outcome(Falsy, campaigns)
        ELSE IF isActive
        THEN IF Truthy(data.status) /\ data.status \in StatusValues
             THEN IF hasOtherChanges
                  THEN Outcome(Throw("Cannot change campaign fields for active campaigns. Only status can be changed."),
                               campaigns)
                  ELSE Outcome(Ok([existingCampaign EXCEPT !.status = data.status]),
                               [campaigns EXCEPT ![index].status = data.status])
             ELSE Outcome(Throw("Can only change status for active campaigns. Use pause/resume."),
                          campaigns)
        ELSE IF ~canEditCampaign(existingCampaign, t)
        THEN Outcome(Throw("Campaign cannot be edited (already started or completed)"),
                     campaigns)
        ELSE IF updated.threw
        THEN Outcome(updated, campaigns)
        ELSE Outcome(updated, [campaigns EXCEPT ![index] = updated.value])

\* campaigns.splice(index, 1)
splice1(campaigns, index) ==
    SubSeq(campaigns, 1, index - 1) \o SubSeq(campaigns, index + 1, Len(campaigns))

\* A deleteCampaign that throws when the campaign is not in the collection.
deleteCampaignThrowingWhenAbsent(campaignId, campaigns, t) ==
    LET index == findIndex(campaigns, campaignId)
        existingCampaign == campaigns[index]
    IN  IF index = 0
        THEN Outcome(Throw("Campaign not found"), campaigns)
        ELSE IF ~canDeleteCampaign(existingCampaign, t)
        THEN Outcome(Throw("Campaign cannot be deleted (already started or completed). Use pause/complete instead."),
                     campaigns)
        ELSE Outcome(Ok(NoCampaign), splice1(campaigns, index))

deleteCampaign(campaignId, campaigns, t) ==
    LET index == findIndex(campaigns, campaignId)
        existingCampaign == campaigns[index]
    IN  IF index = 0
        THEN Outcome(Falsy, campaigns)
        ELSE IF ~canDeleteCampaign(existingCampaign, t)
        THEN Outcome(Throw("Campaign cannot be deleted (already started or completed). Use pause/complete instead."),
                     campaigns)
        ELSE Outcome(Ok(NoCampaign), splice1(campaigns, index))

----------------------------------------------------------------------------
(* The campaign document in S3 *)

\* The TOML spelling of a value: stringify writes an integer, nan or a quoted
\* string, and leaves an undefined field out.
TomlValue(v) ==
    CASE v[1] = "number" -> <<"integer", v[2]>>
      [] v[1] = "NaN" -> <<"nan">>
      [] v[1] = "undefined" -> <<"omitted">>
      [] OTHER -> <<"quoted", v>>

\* The value a TOML spelling parses to.
FromToml(w) ==
    CASE w[1] = "integer" -> Num(w[2])
      [] w[1] = "nan" -> NaN
      [] w[1] = "omitted" -> Undefined
      [] OTHER -> w[2]

stringifyToml(config) ==
    [campaigns |-> [i \in 1..Len(config.campaigns) |->
        [f \in CampaignFields |-> TomlValue(config.campaigns[i][f])]]]

parseToml(content) ==
    [campaigns |-> [i \in 1..Len(content.campaigns) |->
        [f \in CampaignFields |-> FromToml(content.campaigns[i][f])]]]

NoSuchKey == [exists |-> FALSE, content |-> [campaigns |-> <<>>]]
S3Object(content) == [exists |-> TRUE, content |-> content]

\* loadCampaigns: throws when the get fails for another reason than NoSuchKey.
loadCampaigns(obj, faults) ==
    IF faults.s3Get
    THEN [threw |-> TRUE, message |-> "Failed to load campaigns: " \o StoreError,
          campaigns |-> <<>>]
    ELSE IF ~obj.exists
    THEN [threw |-> FALSE, message |-> "", campaigns |-> <<>>]
    ELSE [threw |-> FALSE, message |-> "", campaigns |-> parseToml(obj.content).campaigns]

\* saveCampaigns: the object after the put; throws when the put fails.
saveCampaigns(campaigns, obj, faults) ==
    IF faults.s3Put
    THEN [threw |-> TRUE, message |-> StoreError, object |-> obj]
    ELSE [threw |-> FALSE, message |-> "",
          object |-> S3Object(stringifyToml([campaigns |-> campaigns]))]

----------------------------------------------------------------------------
(* The handler *)

\* A request: httpMethod ("" when absent), path and requestContext.resourcePath
\* as their segments between the slashes (<<>> when absent or "/"),
\* pathParameters.id ("" when absent), the Authorization header as its first
\* seven characters and the rest, and the body.

Response(statusCode, body) == [statusCode |-> statusCode, body |-> body]

Handled(resp, tbl, obj, calls, drew) ==
    [response |-> resp, table |-> tbl, s3Object |-> obj, calls |-> calls,
     drew |-> drew]

Method(ev) == IF ev.httpMethod = "" THEN "GET" ELSE ev.httpMethod

\* event.path === '/auth' || event.path?.endsWith('/auth')
IsAuthPath(path) == Len(path) >= 1 /\ path[Len(path)] = "auth"

\* getAuthFromRequest: the token, <<>> for null or the empty string
getAuthFromRequest(ev) ==
    IF ev.authorization.prefix # "Bearer " THEN <<>> ELSE ev.authorization.rest

\* An isAuthenticated that takes any bearer token for a live session.
isAuthenticatedWithoutLookup(ev, tbl, t, faults) ==
    [ok |-> getAuthFromRequest(ev) # <<>>, table |-> tbl, calls |-> <<>>]

isAuthenticated(ev, tbl, t, faults) ==
    LET token == getAuthFromRequest(ev)
        verified == verifyToken(tbl, token, t, faults)
    IN  IF token = <<>>
        THEN [ok |-> FALSE, table |-> tbl, calls |-> <<>>]
        ELSE [ok |-> verified.address # <<>>, table |-> verified.table,
              calls |-> verified.calls]

AuthErrorMessage(result) ==
    CASE result.reason = "signature_already_used" ->
            "This signature has already been used. Please sign a new message."
      [] result.reason = "invalid_signature" ->
            "Invalid signature. Please try connecting again."
      [] result.reason = "address_not_authorized" ->
            "Address not authorized. Please contact administrator."
      [] result.reason = "verification_error" ->
            "Verification error: " \o result.error
      [] OTHER -> "Authentication failed"

\* The /auth branch of the handler
authRoute(ev, tbl, obj, t, random, faults) ==
    LET body == ev.body
        verificationResult ==
            verifySignature(tbl, body.address, body.message, body.signature, t, faults)
        generated ==
            generateToken(verificationResult.table, body.address, t, random, faults)
    IN  IF Method(ev) # "POST"
        THEN Handled(Response(405, [error |-> "Method not allowed"]),
                     tbl, obj, <<>>, FALSE)
        ELSE IF ~body.parses
        THEN Handled(Response(500, [error |-> "Unexpected token in JSON"]),
                     tbl, obj, <<>>, FALSE)
        ELSE IF body.address = <<>> \/ body.message = <<>> \/ body.signature = <<>>
        THEN Handled(Response(400, [error |-> "Missing address, message, or signature"]),
                     tbl, obj, <<>>, FALSE)
        ELSE IF ~verificationResult.valid
        THEN Handled(Response(401, [error |-> AuthErrorMessage(verificationResult)]),
                     verificationResult.table, obj, verificationResult.calls, FALSE)
        ELSE IF generated.threw
        THEN Handled(Response(500, [error |-> "Database error. Please check Lambda IAM permissions and DynamoDB configuration."]),
                     generated.table, obj,
                     Append(verificationResult.calls, "tokenPut"), TRUE)
        ELSE Handled(Response(200, [token |-> generated.token, address |-> body.address]),
                     generated.table, obj,
                     Append(verificationResult.calls, "tokenPut"), TRUE)

StagePrefixes == {"dev", "prod", "staging"}

\* The resource path the routes look at
ActualResourcePath(ev) ==
    IF ev.resourcePath # <<>>
    THEN ev.resourcePath
    ELSE IF Len(ev.path) >= 2 /\ ev.path[1] \in StagePrefixes
    THEN Tail(ev.path)
    ELSE ev.path

IsCampaignsPath(path) == path = <<"campaigns">> \/ path = <<"campaigns", "">>

\* actualResourcePath.match(/\/campaigns\/([^\/]+)/): the captured segment,
\* "" when there is no match
CampaignsMatch(path) ==
    LET hits == {i \in 1..(Len(path) - 1) : path[i] = "campaigns" /\ path[i + 1] # ""}
    IN  IF hits = {} THEN ""
        ELSE path[(CHOOSE i \in hits : \A j \in hits : i <= j) + 1]

\* The campaign id of a request: pathParameters.id, else the path's
CampaignId(ev) ==
    IF ev.pathId # "" THEN ev.pathId ELSE CampaignsMatch(ActualResourcePath(ev))

\* Routes that answer an error thrown by createCampaign, updateCampaign or
\* deleteCampaign with a conflict status.
campaignRoutesAnsweringConflict(ev, campaigns, tbl, obj, t, calls, faults) ==
    LET method == Method(ev)
        path == ActualResourcePath(ev)
        campaignId == CampaignId(ev)
        index == findIndex(campaigns, Str(campaignId))
        created == createCampaign(ev.body, campaigns)
        updated == updateCampaign(Str(campaignId), ev.body, campaigns, t)
        deleted == deleteCampaign(Str(campaignId), campaigns, t)
        done == CASE method = "POST" -> created
                  [] method = "PUT" -> updated
                  [] OTHER -> deleted
        saved == saveCampaigns(done.campaigns, obj, faults)
        success ==
            CASE method = "POST" ->
                    Response(201, [campaign |-> done.result.value,
                                   message |-> "Campaign created"])
              [] method = "PUT" ->
                    Response(200, [campaign |-> done.result.value,
                                   message |-> "Campaign updated"])
              [] OTHER -> Response(200, [message |-> "Campaign deleted"])
        notFound ==
            IF method = "PUT"
            THEN Response(404, [error |-> "Campaign not found or cannot be edited"])
            ELSE Response(404, [error |-> "Campaign not found or cannot be deleted"])
        notAllowed == Handled(Response(405, [error |-> "Method not allowed"]),
                              tbl, obj, calls, FALSE)
    IN  IF method = "GET"
        THEN IF IsCampaignsPath(path) /\ ev.pathId = ""
             THEN Handled(Response(200, [campaigns |-> campaigns]), tbl, obj, calls, FALSE)
             ELSE IF campaignId = ""
             THEN notAllowed
             ELSE IF index # 0
             THEN Handled(Response(200, [campaign |-> campaigns[index]]),
                          tbl, obj, calls, FALSE)
             ELSE Handled(Response(404, [error |-> "Campaign not found"]),
                          tbl, obj, calls, FALSE)
        ELSE IF \/ method = "POST" /\ ~IsCampaignsPath(path)
                \/ method \in {"PUT", "DELETE"} /\ campaignId = ""
                \/ method \notin {"POST", "PUT", "DELETE"}
        THEN notAllowed
        ELSE IF method # "DELETE" /\ ~ev.body.parses
        THEN Handled(Response(500, [error |-> "Unexpected token in JSON"]),
                     tbl, obj, calls, FALSE)
        ELSE IF done.result.threw
        THEN Handled(Response(409, [error |-> done.result.message]),
                     tbl, obj, calls, FALSE)
        ELSE IF ~done.result.truthy
        THEN Handled(notFound, tbl, obj, calls, FALSE)
        ELSE IF saved.threw
        THEN Handled(Response(500, [error |-> saved.message]),
                     tbl, obj, Append(calls, "s3Put"), FALSE)
        ELSE Handled(success, tbl, saved.object, Append(calls, "s3Put"), FALSE)

\* Routes that save the loaded array also when the campaign was not found.
campaignRoutesSavingWhenNotFound(ev, campaigns, tbl, obj, t, calls, faults) ==
    LET method == Method(ev)
        path == ActualResourcePath(ev)
        campaignId == CampaignId(ev)
        index == findIndex(campaigns, Str(campaignId))
        created == createCampaign(ev.body, campaigns)
        updated == updateCampaign(Str(campaignId), ev.body, campaigns, t)
        deleted == deleteCampaign(Str(campaignId), campaigns, t)
        done == CASE method = "POST" -> created
                  [] method = "PUT" -> updated
                  [] OTHER -> deleted
        saved == saveCampaigns(done.campaigns, obj, faults)
        success ==
            CASE method = "POST" ->
                    Response(201, [campaign |-> done.result.value,
                                   message |-> "Campaign created"])
              [] method = "PUT" ->
                    Response(200, [campaign |-> done.result.value,
                                   message |-> "Campaign updated"])
              [] OTHER -> Response(200, [message |-> "Campaign deleted"])
        notFound ==
            IF method = "PUT"
            THEN Response(404, [error |-> "Campaign not found or cannot be edited"])
            ELSE Response(404, [error |-> "Campaign not found or cannot be deleted"])
        notAllowed == Handled(Response(405, [error |-> "Method not allowed"]),
                              tbl, obj, calls, FALSE)
    IN  IF method = "GET"
        THEN IF IsCampaignsPath(path) /\ ev.pathId = ""
             THEN Handled(Response(200, [campaigns |-> campaigns]), tbl, obj, calls, FALSE)
             ELSE IF campaignId = ""
             THEN notAllowed
             ELSE IF index # 0
             THEN Handled(Response(200, [campaign |-> campaigns[index]]),
                          tbl, obj, calls, FALSE)
             ELSE Handled(Response(404, [error |-> "Campaign not found"]),
                          tbl, obj, calls, FALSE)
        ELSE IF \/ method = "POST" /\ ~IsCampaignsPath(path)
                \/ method \in {"PUT", "DELETE"} /\ campaignId = ""
                \/ method \notin {"POST", "PUT", "DELETE"}
        THEN notAllowed
        ELSE IF method # "DELETE" /\ ~ev.body.parses
        THEN Handled(Response(500, [error |-> "Unexpected token in JSON"]),
                     tbl, obj, calls, FALSE)
        ELSE IF done.result.threw
        THEN Handled(Response(500, [error |-> done.result.message]),
                     tbl, obj, calls, FALSE)
        ELSE IF ~done.result.truthy
        THEN Handled(notFound, tbl, saved.object, Append(calls, "s3Put"), FALSE)
        ELSE IF saved.threw
        THEN Handled(Response(500, [error |-> saved.message]),
                     tbl, obj, Append(calls, "s3Put"), FALSE)
        ELSE Handled(success, tbl, saved.object, Append(calls, "s3Put"), FALSE)

\* The routes behind the authorization gate, given the loaded campaigns
campaignRoutes(ev, campaigns, tbl, obj, t, calls, faults) ==
    LET method == Method(ev)
        path == ActualResourcePath(ev)
        campaignId == CampaignId(ev)
        index == findIndex(campaigns, Str(campaignId))
        created == createCampaign(ev.body, campaigns)
        updated == updateCampaign(Str(campaignId), ev.body, campaigns, t)
        deleted == deleteCampaign(Str(campaignId), campaigns, t)
        done == CASE method = "POST" -> created
                  [] method = "PUT" -> updated
                  [] OTHER -> deleted
        saved == saveCampaigns(done.campaigns, obj, faults)
        success ==
            CASE method = "POST" ->
                    Response(201, [campaign |-> done.result.value,
                                   message |-> "Campaign created"])
              [] method = "PUT" ->
                    Response(200, [campaign |-> done.result.value,
                                   message |-> "Campaign updated"])
              [] OTHER -> Response(200, [message |-> "Campaign deleted"])
        notFound ==
            IF method = "PUT"
            THEN Response(404, [error |-> "Campaign not found or cannot be edited"])
            ELSE Response(404, [error |-> "Campaign not found or cannot be deleted"])
        notAllowed == Handled(Response(405, [error |-> "Method not allowed"]),
                              tbl, obj, calls, FALSE)
    IN  IF method = "GET"
        THEN IF IsCampaignsPath(path) /\ ev.pathId = ""
             THEN Handled(Response(200, [campaigns |-> campaigns]), tbl, obj, calls, FALSE)
             ELSE IF campaignId = ""
             THEN notAllowed
             ELSE IF index # 0
             THEN Handled(Response(200, [campaign |-> campaigns[index]]),
                          tbl, obj, calls, FALSE)
             ELSE Handled(Response(404, [error |-> "Campaign not found"]),
                          tbl, obj, calls, FALSE)
        ELSE IF \/ method = "POST" /\ ~IsCampaignsPath(path)
                \/ method \in {"PUT", "DELETE"} /\ campaignId = ""
                \/ method \notin {"POST", "PUT", "DELETE"}
        THEN notAllowed
        ELSE IF method # "DELETE" /\ ~ev.body.parses
        THEN Handled(Response(500, [error |-> "Unexpected token in JSON"]),
                     tbl, obj, calls, FALSE)
        ELSE IF done.result.threw
        THEN Handled(Response(500, [error |-> done.result.message]),
                     tbl, obj, calls, FALSE)
        ELSE IF ~done.result.truthy
        THEN Handled(notFound, tbl, obj, calls, FALSE)
        ELSE IF saved.threw
        THEN Handled(Response(500, [error |-> saved.message]),
                     tbl, obj, Append(calls, "s3Put"), FALSE)
        ELSE Handled(success, tbl, saved.object, Append(calls, "s3Put"), FALSE)

\* The handler behind the /auth branch: the authorization gate, the load of
\* the campaigns and the routes
\* An authorization gate that tells a missing credential from a rejected one.
apiRouteNamingTheCause(ev, tbl, obj, t, faults) ==
    LET auth == isAuthenticated(ev, tbl, t, faults)
        loaded == loadCampaigns(obj, faults)
    IN  IF getAuthFromRequest(ev) = <<>>
        THEN Handled(Response(401, [error |-> "Missing bearer token."]),
                     auth.table, obj, auth.calls, FALSE)
        ELSE IF ~auth.ok
        THEN Handled(Response(401, [error |-> "Unauthorized. Please connect your wallet."]),
                     auth.table, obj, auth.calls, FALSE)
        ELSE IF loaded.threw
        THEN Handled(Response(500, [error |-> loaded.message]),
                     auth.table, obj, Append(auth.calls, "s3Get"), FALSE)
        ELSE campaignRoutes(ev, loaded.campaigns, auth.table, obj, t,
                            Append(auth.calls, "s3Get"), faults)

\* A handler that loads the campaigns a second time when the first load
\* fails.
apiRouteRetryingTheLoad(ev, tbl, obj, t, faults) ==
    LET auth == isAuthenticated(ev, tbl, t, faults)
        loaded == loadCampaigns(obj, faults)
    IN  IF ~auth.ok
        THEN Handled(Response(401, [error |-> "Unauthorized. Please connect your wallet."]),
                     auth.table, obj, auth.calls, FALSE)
        ELSE IF loaded.threw
        THEN Handled(Response(500, [error |-> loaded.message]),
                     auth.table, obj, auth.calls \o <<"s3Get", "s3Get">>, FALSE)
        ELSE campaignRoutes(ev, loaded.campaigns, auth.table, obj, t,
                            Append(auth.calls, "s3Get"), faults)

apiRoute(ev, tbl, obj, t, faults) ==
    LET auth == isAuthenticated(ev, tbl, t, faults)
        loaded == loadCampaigns(obj, faults)
    IN  IF ~auth.ok
        THEN Handled(Response(401, [error |-> "Unauthorized. Please connect your wallet."]),
                     auth.table, obj, auth.calls, FALSE)
        ELSE IF loaded.threw
        THEN Handled(Response(500, [error |-> loaded.message]),
                     auth.table, obj, Append(auth.calls, "s3Get"), FALSE)
        ELSE campaignRoutes(ev, loaded.campaigns, auth.table, obj, t,
                            Append(auth.calls, "s3Get"), faults)

handler(ev, tbl, obj, t, random, faults) ==
    IF Method(ev) = "OPTIONS"
    THEN Handled(Response(200, [empty |-> TRUE]), tbl, obj, <<>>, FALSE)
    ELSE IF IsAuthPath(ev.path)
    THEN authRoute(ev, tbl, obj, t, random, faults)
    ELSE apiRoute(ev, tbl, obj, t, faults)

----------------------------------------------------------------------------
(* The requests the model sends *)

M1 == <<"m", "1">>
M2 == <<"m", "2">>

\* The texts of the ALLOWLIST variable: unset or empty, separators only, and
\* two addresses with blanks around the first.
AllowlistTexts ==
    {<<>>,
     <<" ", ",", " ">>,
     <<" ", "0", "x", "A", "a", " ", ",", "0", "x", "b", "b">>}

NoAuthorization == [prefix |-> "", rest |-> <<>>]
Bearer(token) == [prefix |-> "Bearer ", rest |-> token]

\* A token nobody was issued: crypto.randomBytes never drew 0.
ForgedToken == TokenString(toLowerCase(AddressOf("A")), StartTime, 0)

AuthBody(address, message, signature) ==
    [parses |-> TRUE, address |-> address, message |-> message,
     signature |-> signature]

\* The bodies of POST /auth: the signer A claims its own address (in both
\* spellings, over two messages), the signer D claims its own, D and A claim
\* the other's signature, a signature over other text, a malformed signature,
\* a missing field and a body that is no JSON.
AuthBodies ==
    {AuthBody(AddressOf("A"), M1, Sign("A", M1)),
     AuthBody(AddressOf("A"), M2, Sign("A", M2)),
     AuthBody(toLowerCase(AddressOf("A")), M2, Sign("A", M2)),
     AuthBody(AddressOf("D"), M1, Sign("D", M1)),
     AuthBody(AddressOf("D"), M1, Sign("A", M1)),
     AuthBody(AddressOf("A"), M2, Sign("A", M1)),
     AuthBody(AddressOf("A"), M1, <<"z">>),
     AuthBody(<<>>, M1, Sign("A", M1)),
     [AuthBody(<<>>, <<>>, <<>>) EXCEPT !.parses = FALSE]}

Event(method, path, resourcePath, pathId, authorization, body) ==
    [httpMethod |-> method, path |-> path, resourcePath |-> resourcePath,
     pathId |-> pathId, authorization |-> authorization, body |-> body]

AuthEvents ==
    {Event("POST", <<"auth">>, <<>>, "", NoAuthorization, body) : body \in AuthBodies}
    \cup {Event("POST", <<"prod", "auth">>, <<>>, "", NoAuthorization,
                AuthBody(AddressOf("A"), M1, Sign("A", M1))),
          Event("GET", <<"auth">>, <<>>, "", NoAuthorization,
                AuthBody(<<>>, <<>>, <<>>))}

CampaignBody(id, token_address, total_amount, start_date, end_date, status) ==
    [parses |-> TRUE, id |-> id, token_address |-> token_address,
     total_amount |-> total_amount, start_date |-> start_date,
     end_date |-> end_date, status |-> status]

EmptyBody ==
    CampaignBody(Undefined, Undefined, Undefined, Undefined, Undefined, Undefined)

\* The campaign of the authentication runs.
Campaign1 ==
    CampaignBody(Str("c1"), Str("0xabc"), Num(100), DateStr(3, 0), DateStr(5, 0),
                 Undefined)

\* The credentials a caller presents: none, another scheme, an empty or a
\* forged token, and every token issued so far.
Authorizations ==
    {NoAuthorization, [prefix |-> "Basic x", rest |-> <<>>], Bearer(<<>>),
     Bearer(ForgedToken)} \cup {Bearer(token) : token \in issued}

\* The campaign requests of the authentication runs (method, path,
\* resourcePath, pathParameters.id and body): campaign c1 is listed, read,
\* created and rewritten with the same fields, and a campaign that does not
\* exist is deleted.
ApiCalls ==
    {<<"GET", <<"campaigns">>, <<>>, "", EmptyBody>>,
     <<"GET", <<"prod", "campaigns", "c1">>, <<"campaigns", "{id}">>, "c1", EmptyBody>>,
     <<"POST", <<"campaigns">>, <<>>, "", Campaign1>>,
     <<"PUT", <<"campaigns", "c1">>, <<>>, "", Campaign1>>,
     <<"DELETE", <<"dev", "campaigns", "c2">>, <<>>, "", EmptyBody>>,
     <<"PATCH", <<"campaigns">>, <<>>, "", EmptyBody>>}

ApiEvents ==
    {Event("", <<"campaigns", "">>, <<>>, "", a, EmptyBody) : a \in Authorizations}
    \cup {Event(c[1], c[2], c[3], c[4], a, c[5]) :
            c \in ApiCalls,
            a \in {NoAuthorization, Bearer(ForgedToken)}
                    \cup {Bearer(token) : token \in issued}}

OptionsEvents ==
    {Event("OPTIONS", <<"campaigns">>, <<>>, "", NoAuthorization, EmptyBody)}

\* The failures of one request's store calls.  A failed call ends the request,
\* except the nonce put, whose failure is only logged: so the cases are no
\* failure, each call failing alone, and the nonce put and the token put
\* failing together.
AuthFaults ==
    {NoFaults,
     [NoFaults EXCEPT !.nonceGet = TRUE],
     [NoFaults EXCEPT !.noncePut = TRUE],
     [NoFaults EXCEPT !.tokenPut = TRUE],
     [NoFaults EXCEPT !.noncePut = TRUE, !.tokenPut = TRUE]}

ApiFaults ==
    {NoFaults,
     [NoFaults EXCEPT !.tokenGet = TRUE],
     [NoFaults EXCEPT !.tokenDelete = TRUE],
     [NoFaults EXCEPT !.s3Get = TRUE],
     [NoFaults EXCEPT !.s3Put = TRUE]}

----------------------------------------------------------------------------
(* The state machine *)

\* The invocations of the handler that can be under way at once.
Slots == 1..MaxInflight

NoEvent == Event("", <<>>, <<>>, "", NoAuthorization, EmptyBody)
NoResponse == Response(0, [empty |-> TRUE])

\* An invocation that runs await by await: where it stands (at the
\* authorization gate, at the load of the campaigns, at the save, or with its
\* response ready), its request, the array it loaded, the document it is
\* about to put and its response.
Idle ==
    [pc |-> "idle", ev |-> NoEvent, loaded |-> <<>>, put |-> NoSuchKey,
     response |-> NoResponse]

Init ==
    /\ env \in {[ALLOWLIST |-> text] : text \in AllowlistTexts}
    /\ ALLOWLIST = getAllowlist(env.ALLOWLIST)
    /\ now = StartTime
    /\ ticks = 0
    /\ table = {}
    /\ s3Object = NoSuchKey
    /\ randomDraws = 0
    /\ issued = {}
    /\ nonceWritten = {}
    /\ inflight = [slot \in Slots |-> Idle]

\* The handler's result for a request in the current state.
Handle(ev, faults) == handler(ev, table, s3Object, now, randomDraws + 1, faults)

TokenItems(tbl) == {item \in tbl : item.sk = "TOKEN"}
NonceItems(tbl) == {item \in tbl : item.sk = "NONCE"}

IsAuthEvent(ev) == Method(ev) # "OPTIONS" /\ IsAuthPath(ev.path)

\* One invocation of the handler, from the request to the response.
Request(ev, faults) ==
    LET h == Handle(ev, faults)
    IN  /\ h.drew => randomDraws < MaxTokens
        /\ table' = h.table
        /\ s3Object' = h.s3Object
        /\ randomDraws' = IF h.drew THEN randomDraws + 1 ELSE randomDraws
        /\ issued' = IF IsAuthEvent(ev) /\ h.response.statusCode = 200
                      THEN issued \cup {h.response.body.token}
                      ELSE issued
        /\ nonceWritten' = nonceWritten \cup
              {item.pk[2] : item \in NonceItems(h.table) \ NonceItems(table)}
        /\ UNCHANGED <<env, ALLOWLIST, now, ticks, inflight>>

AuthRequest == \E ev \in AuthEvents : Request(ev, NoFaults)
ApiRequest == \E ev \in ApiEvents : Request(ev, NoFaults)
OptionsRequest == \E ev \in OptionsEvents : Request(ev, NoFaults)

\* The requests of the runs with failing stores: a valid sign-in of A, a
\* wrong claim, an address that is not allowlisted, and the listing and the
\* creation of campaigns.
FaultyAuthEvents ==
    {Event("POST", <<"auth">>, <<>>, "", NoAuthorization, body) :
        body \in {AuthBody(AddressOf("A"), M1, Sign("A", M1)),
                  AuthBody(AddressOf("D"), M1, Sign("A", M1)),
                  AuthBody(AddressOf("D"), M1, Sign("D", M1))}}

FaultyApiEvents ==
    {Event("GET", <<"campaigns">>, <<>>, "", a, EmptyBody) : a \in Authorizations}
    \cup {Event("POST", <<"campaigns">>, <<>>, "", Bearer(token), Campaign1) :
            token \in issued}

AuthRequestFaulty ==
    \E ev \in FaultyAuthEvents, faults \in AuthFaults : Request(ev, faults)
ApiRequestFaulty ==
    \E ev \in FaultyApiEvents, faults \in ApiFaults : Request(ev, faults)

ClockSteps == {1, DayMs, 7 * DayMs}

\* Time passes.
Tick ==
    /\ ticks < MaxTicks
    /\ \E d \in ClockSteps :
          /\ now + d <= ClockHorizon
          /\ now' = now + d
    /\ ticks' = ticks + 1
    /\ UNCHANGED <<env, ALLOWLIST, table, s3Object, randomDraws, issued,
                   nonceWritten, inflight>>

\* DynamoDB's time-to-live: an item whose ttl (epoch seconds) is in the past
\* is deleted by the table, at some time of the table's choosing.
TtlExpire ==
    /\ \E item \in table :
          /\ item.ttl < now \div 1000
          /\ table' = table \ {item}
    /\ UNCHANGED <<env, ALLOWLIST, now, ticks, s3Object, randomDraws, issued,
                   nonceWritten, inflight>>

Next == AuthRequest \/ ApiRequest \/ OptionsRequest \/ Tick \/ TtlExpire

Spec == Init /\ [][Next]_vars

NextFaulty ==
    AuthRequestFaulty \/ ApiRequestFaulty \/ OptionsRequest \/ Tick \/ TtlExpire

SpecFaulty == Init /\ [][NextFaulty]_vars

----------------------------------------------------------------------------
(* The campaign runs: one operator signs in and administers the campaigns   *)
(* c1 and c2 over a few days.                                               *)

\* The campaign c1 as the operator first submits it: it starts on day 1 and
\* ends on day 3, and carries no status.
CampaignC1 ==
    CampaignBody(Str("c1"), Str("0xabc"), Num(100), DateStr(1, 0), DateStr(3, 0),
                 Undefined)

CampaignC2 ==
    CampaignBody(Str("c2"), Str("0xdef"), Num(50), DateStr(2, 0), DateStr(3, 0),
                 Str("paused"))

\* The bodies of POST /campaigns and PUT /campaigns/{id}: c1 and c2, c1 with
\* each status, with another amount, with the amount spelled as a string,
\* with a start time within day 1, with dates out of order or unreadable,
\* with an amount that is zero, negative or no number, with a status outside
\* the three, without a required field, and a body of a status alone.
CampaignInputs ==
    {CampaignC1,
     CampaignC2,
     [CampaignC1 EXCEPT !.status = Str("active")],
     [CampaignC1 EXCEPT !.status = Str("paused")],
     [CampaignC1 EXCEPT !.status = Str("completed")],
     [CampaignC1 EXCEPT !.status = Str("paused"), !.total_amount = Num(200)],
     [CampaignC1 EXCEPT !.status = Str("paused"), !.total_amount = NumStr(100)],
     [CampaignC1 EXCEPT !.start_date = DateStr(1, 3600000)],
     [CampaignC1 EXCEPT !.end_date = DateStr(1, 0)],
     [CampaignC1 EXCEPT !.start_date = DateStr(3, 0), !.end_date = DateStr(2, 0)],
     [CampaignC1 EXCEPT !.end_date = Str("soon")],
     [CampaignC1 EXCEPT !.total_amount = Num(0)],
     [CampaignC1 EXCEPT !.total_amount = NumStr(-5)],
     [CampaignC1 EXCEPT !.total_amount = Str("abc")],
     [CampaignC1 EXCEPT !.status = Str("bogus")],
     [CampaignC1 EXCEPT !.token_address = Undefined],
     [EmptyBody EXCEPT !.status = Str("paused")]}

\* The operator's sign-ins.
OperatorSignIns ==
    {Event("POST", <<"auth">>, <<>>, "", NoAuthorization, body) :
        body \in {AuthBody(AddressOf("A"), M1, Sign("A", M1)),
                  AuthBody(AddressOf("A"), M2, Sign("A", M2))}}

\* A body that is no JSON.
NotJson == [EmptyBody EXCEPT !.parses = FALSE]

\* What the operator asks for (method, path, resourcePath, pathParameters.id
\* and body): every input is posted and put to c1, c2 is put its own fields
\* and those of c1, both campaigns are deleted, the campaigns are listed and
\* read, c1 is put a body that is no JSON, and c1 is patched.
CampaignCalls ==
    {<<"POST", <<"campaigns">>, <<>>, "", data>> : data \in CampaignInputs}
    \cup {<<"PUT", <<"campaigns", "c1">>, <<>>, "", data>> : data \in CampaignInputs}
    \cup {<<"PUT", <<"prod", "campaigns", "c2">>, <<"campaigns", "{id}">>, "c2", data>> :
            data \in {CampaignC1, CampaignC2}}
    \cup {<<"DELETE", <<"campaigns", "c1">>, <<>>, "", EmptyBody>>,
          <<"DELETE", <<"campaigns", "c2">>, <<>>, "", EmptyBody>>,
          <<"GET", <<"campaigns">>, <<>>, "", EmptyBody>>,
          <<"GET", <<"campaigns", "c1">>, <<>>, "", EmptyBody>>,
          <<"GET", <<"prod", "campaigns", "c2">>, <<"campaigns", "{id}">>, "c2", EmptyBody>>,
          <<"PUT", <<"campaigns", "c1">>, <<>>, "", NotJson>>,
          <<"PATCH", <<"campaigns", "c1">>, <<>>, "", CampaignC1>>}

\* The operator's campaign requests, each with a token a sign-in returned.
CampaignEvents ==
    {Event(c[1], c[2], c[3], c[4], Bearer(token), c[5]) :
        c \in CampaignCalls, token \in issued}

InitConfigured == Init /\ ALLOWLIST # <<>>

SignIn == \E ev \in OperatorSignIns : Request(ev, NoFaults)
CampaignRequest == \E ev \in CampaignEvents : Request(ev, NoFaults)

\* Midnight (UTC) passes.
NextDay ==
    /\ ticks < MaxTicks
    /\ now + DayMs <= ClockHorizon
    /\ now' = now + DayMs
    /\ ticks' = ticks + 1
    /\ UNCHANGED <<env, ALLOWLIST, table, s3Object, randomDraws, issued,
                   nonceWritten, inflight>>

NextCampaigns == SignIn \/ CampaignRequest \/ NextDay \/ TtlExpire

SpecCampaigns == InitConfigured /\ [][NextCampaigns]_vars

----------------------------------------------------------------------------
(* The concurrent runs: the operator signs in once, and invocations of the  *)
(* handler for campaign requests interleave at their awaits.                *)

ConcurrentSignIns ==
    {Event("POST", <<"auth">>, <<>>, "", NoAuthorization,
           AuthBody(AddressOf("A"), M1, Sign("A", M1)))}

\* The bodies posted while another request is under way: c1, c1 with another
\* amount, and c2.
ConcurrentInputs ==
    {CampaignC1, [CampaignC1 EXCEPT !.total_amount = Num(200)], CampaignC2}

ConcurrentEvents ==
    {Event("POST", <<"campaigns">>, <<>>, "", Bearer(token), data) :
        data \in ConcurrentInputs, token \in issued}

ConcurrentSignIn == \E ev \in ConcurrentSignIns : Request(ev, NoFaults)

\* The handler is invoked.
Receive(slot) ==
    /\ inflight[slot].pc = "idle"
    /\ \E ev \in ConcurrentEvents :
          inflight' = [inflight EXCEPT ![slot] = [Idle EXCEPT !.pc = "gate", !.ev = ev]]
    /\ UNCHANGED <<env, ALLOWLIST, now, ticks, table, s3Object, randomDraws,
                   issued, nonceWritten>>

\* await isAuthenticated(event), and the 401 of the gate
Gate(slot) ==
    LET auth == isAuthenticated(inflight[slot].ev, table, now, NoFaults)
    IN  /\ inflight[slot].pc = "gate"
        /\ table' = auth.table
        /\ inflight' =
              [inflight EXCEPT ![slot] =
                  IF auth.ok
                  THEN [@ EXCEPT !.pc = "load"]
                  ELSE [@ EXCEPT !.pc = "done",
                                 !.response = Response(401, [error |-> "Unauthorized. Please connect your wallet."])]]
        /\ UNCHANGED <<env, ALLOWLIST, now, ticks, s3Object, randomDraws,
                       issued, nonceWritten>>

\* await loadCampaigns(), and the route's work on the loaded array up to the
\* await of saveCampaigns or to the return
Load(slot) ==
    LET loaded == loadCampaigns(s3Object, NoFaults)
        routed == campaignRoutes(inflight[slot].ev, loaded.campaigns, table,
                                 s3Object, now, <<"tokenGet", "s3Get">>, NoFaults)
        saves == \E i \in 1..Len(routed.calls) : routed.calls[i] = "s3Put"
    IN  /\ inflight[slot].pc = "load"
        /\ inflight' =
              [inflight EXCEPT ![slot] =
                  [@ EXCEPT !.pc = IF saves THEN "save" ELSE "done",
                            !.loaded = loaded.campaigns,
                            !.put = IF saves THEN routed.s3Object ELSE NoSuchKey,
                            !.response = routed.response]]
        /\ UNCHANGED <<env, ALLOWLIST, now, ticks, table, s3Object, randomDraws,
                       issued, nonceWritten>>

\* A save that appends the request's campaign to the document as it is at the
\* time of the put.
SaveMerging(slot) ==
    LET created == validateCampaign(inflight[slot].ev.body).value
    IN  /\ inflight[slot].pc = "save"
        /\ s3Object' = saveCampaigns(Append(loadCampaigns(s3Object, NoFaults).campaigns, created),
                                     s3Object, NoFaults).object
        /\ inflight' = [inflight EXCEPT ![slot].pc = "done"]
        /\ UNCHANGED <<env, ALLOWLIST, now, ticks, table, randomDraws, issued,
                       nonceWritten>>

\* await saveCampaigns(campaigns): the put replaces the whole document
Save(slot) ==
    /\ inflight[slot].pc = "save"
    /\ s3Object' = inflight[slot].put
    /\ inflight' = [inflight EXCEPT ![slot].pc = "done"]
    /\ UNCHANGED <<env, ALLOWLIST, now, ticks, table, randomDraws, issued,
                   nonceWritten>>

\* The handler returns its response.
Respond(slot) ==
    /\ inflight[slot].pc = "done"
    /\ inflight' = [inflight EXCEPT ![slot] = Idle]
    /\ UNCHANGED <<env, ALLOWLIST, now, ticks, table, s3Object, randomDraws,
                   issued, nonceWritten>>

NextConcurrent ==
    \/ ConcurrentSignIn
    \/ \E slot \in Slots :
          Receive(slot) \/ Gate(slot) \/ Load(slot) \/ Save(slot) \/ Respond(slot)

SpecConcurrent == InitConfigured /\ [][NextConcurrent]_vars

----------------------------------------------------------------------------
(* The concurrent sign-ins: invocations of the handler for POST /auth       *)
(* interleave at their awaits.                                              *)

\* The handler is invoked for a sign-in.
ReceiveSignIn(slot) ==
    /\ inflight[slot].pc = "idle"
    /\ \E ev \in OperatorSignIns :
          inflight' = [inflight EXCEPT ![slot] = [Idle EXCEPT !.pc = "check", !.ev = ev]]
    /\ UNCHANGED <<env, ALLOWLIST, now, ticks, table, s3Object, randomDraws,
                   issued, nonceWritten>>

\* await isNonceUsed(nonce), and the tests of verifySignature up to the await
\* of markNonceUsed or to the 401 of a rejection
CheckNonce(slot) ==
    LET ev == inflight[slot].ev
        verificationResult ==
            verifySignature(table, ev.body.address, ev.body.message,
                            ev.body.signature, now, NoFaults)
        rejected == authRoute(ev, table, s3Object, now, randomDraws + 1, NoFaults)
    IN  /\ inflight[slot].pc = "check"
        /\ inflight' =
              [inflight EXCEPT ![slot] =
                  IF verificationResult.valid
                  THEN [@ EXCEPT !.pc = "mark"]
                  ELSE [@ EXCEPT !.pc = "done", !.response = rejected.response]]
        /\ UNCHANGED <<env, ALLOWLIST, now, ticks, table, s3Object, randomDraws,
                       issued, nonceWritten>>

\* await markNonceUsed(nonce, address): the put has no condition
MarkNonce(slot) ==
    LET body == inflight[slot].ev.body
        nonce == generateNonce(body.message, body.signature)
    IN  /\ inflight[slot].pc = "mark"
        /\ table' = markNonceUsed(table, nonce, body.address, now, NoFaults).table
        /\ nonceWritten' = nonceWritten \cup {nonce}
        /\ inflight' = [inflight EXCEPT ![slot].pc = "issue"]
        /\ UNCHANGED <<env, ALLOWLIST, now, ticks, s3Object, randomDraws, issued>>

\* await generateToken(address), and the 200 with the token
IssueToken(slot) ==
    LET body == inflight[slot].ev.body
        generated == generateToken(table, body.address, now, randomDraws + 1, NoFaults)
    IN  /\ inflight[slot].pc = "issue"
        /\ randomDraws < MaxTokens
        /\ table' = generated.table
        /\ randomDraws' = randomDraws + 1
        /\ issued' = issued \cup {generated.token}
        /\ inflight' =
              [inflight EXCEPT ![slot] =
                  [@ EXCEPT !.pc = "done",
                            !.response = Response(200, [token |-> generated.token,
                                                         address |-> body.address])]]
        /\ UNCHANGED <<env, ALLOWLIST, now, ticks, s3Object, nonceWritten>>

NextConcurrentSignIns ==
    \E slot \in Slots :
        \/ ReceiveSignIn(slot)
        \/ CheckNonce(slot)
        \/ MarkNonce(slot)
        \/ IssueToken(slot)
        \/ Respond(slot)

SpecConcurrentSignIns == InitConfigured /\ [][NextConcurrentSignIns]_vars

----------------------------------------------------------------------------
(* Vocabulary of the properties *)

\* A POST /auth whose body parses and carries the three fields.
IsSignIn(ev) ==
    /\ IsAuthEvent(ev)
    /\ Method(ev) = "POST"
    /\ ev.body.parses
    /\ ev.body.address # <<>> /\ ev.body.message # <<>> /\ ev.body.signature # <<>>

\* The signature recovers to the claimed address.
SignerIsClaimed(ev) ==
    LET recovered == verifyMessage(ev.body.message, ev.body.signature)
    IN  /\ ~recovered.threw
        /\ toLowerCase(recovered.address) = toLowerCase(ev.body.address)

Allowlisted(address) == \E i \in 1..Len(ALLOWLIST) : ALLOWLIST[i] = toLowerCase(address)

\* A sign-in of an allowlisted signer claiming its own address.
ValidSignIn(ev) == IsSignIn(ev) /\ SignerIsClaimed(ev) /\ Allowlisted(ev.body.address)

NonceOf(ev) == generateNonce(ev.body.message, ev.body.signature)

\* The table holds a nonce record for the request's (message, signature).
NonceRecorded(tbl, ev) == \E item \in NonceItems(tbl) : item.pk = NoncePk(NonceOf(ev))

SignatureUsed ==
    Response(401, [error |-> "This signature has already been used. Please sign a new message."])
InvalidSignature ==
    Response(401, [error |-> "Invalid signature. Please try connecting again."])
NotAuthorized ==
    Response(401, [error |-> "Address not authorized. Please contact administrator."])
Unauthorized ==
    Response(401, [error |-> "Unauthorized. Please connect your wallet."])

\* The handler's result for a request in the state after the step.
HandleNext(ev, faults) ==
    handler(ev, table', s3Object', now', randomDraws' + 1, faults)

Called(h, call) == \E i \in 1..Len(h.calls) : h.calls[i] = call

\* The campaigns of the document in S3.
Campaigns(obj) == loadCampaigns(obj, NoFaults).campaigns

\* The token is accepted now.
ValidSession(token) == verifyToken(table, token, now, NoFaults).address # <<>>

\* A campaign request sent with a token that is accepted now.
Served(ev) == getAuthFromRequest(ev) # <<>> /\ ValidSession(getAuthFromRequest(ev))

\* The instant a date string names, in ms.
InstantOf(date) == date[2] * (24 * 60 * 60 * 1000) + date[3]

IsDateString(v) == v[1] = "datestring"

\* The value is a number or spells one.
IsNumeric(v) == v[1] \in {"number", "numstring"}

\* The campaign's start day (UTC) is today or earlier.
Started(campaign) == campaign.start_date[2] <= now \div (24 * 60 * 60 * 1000)

Ids(campaigns) == [i \in 1..Len(campaigns) |-> campaigns[i].id]

\* Every way the store calls of a POST /auth can fail, and every way those of
\* a campaign request can.
AuthFaultCases ==
    {[NoFaults EXCEPT !.nonceGet = a, !.noncePut = b, !.tokenPut = c] :
        a \in BOOLEAN, b \in BOOLEAN, c \in BOOLEAN}

ApiFaultCases ==
    {[NoFaults EXCEPT !.tokenGet = a, !.tokenDelete = b, !.s3Get = c, !.s3Put = d] :
        a \in BOOLEAN, b \in BOOLEAN, c \in BOOLEAN, d \in BOOLEAN}

\* The status codes the handler returns.
StatusCodes == {200, 201, 400, 401, 404, 405, 500}

TwentyFourHours == 24 * 60 * 60 * 1000

----------------------------------------------------------------------------
(* C1 *)

\* C1: a sign-in of an allowlisted signer with a (message, signature) that has
\* no nonce record returns 200 with a token, and the same request sent again
\* right after it returns 401 "signature already used" and issues no token.
ReplayIsRejected ==
    /\ [](\A ev \in AuthEvents :
            (ValidSignIn(ev) /\ ~NonceRecorded(table, ev)) =>
                LET h == Handle(ev, NoFaults)
                IN  /\ h.response.statusCode = 200
                    /\ h.response.body.token # <<>>)
    /\ [][\A ev \in AuthEvents :
            (/\ ValidSignIn(ev)
             /\ Handle(ev, NoFaults).response.statusCode = 200
             /\ Request(ev, NoFaults)) =>
                LET replay == HandleNext(ev, NoFaults)
                IN  /\ replay.response = SignatureUsed
                    /\ ~replay.drew
                    /\ TokenItems(replay.table) = TokenItems(table')]_vars

\* A sign-in was answered with a token, its nonce is recorded, and the same
\* request is now answered "signature already used".
ReplayIsRejectedWitness ==
    \E ev \in AuthEvents :
        /\ ValidSignIn(ev)
        /\ NonceRecorded(table, ev)
        /\ \E token \in issued : token[1] = ev.body.address
        /\ Handle(ev, NoFaults).response = SignatureUsed

----------------------------------------------------------------------------
(* C2 *)

\* C2: a request that is not for /auth and is no OPTIONS request, and in which
\* no bearer token was extracted or verifyToken returned null for it, is
\* answered 401 and neither loads nor saves the campaign document.
NoDocumentAccessWithoutSession ==
    \A ev \in ApiEvents :
        LET h == Handle(ev, NoFaults)
            token == getAuthFromRequest(ev)
            verified == verifyToken(table, token, now, NoFaults)
        IN  (token = <<>> \/ verified.address = <<>>) =>
                /\ h.response = Unauthorized
                /\ ~Called(h, "s3Get")
                /\ ~Called(h, "s3Put")
                /\ h.s3Object = s3Object

\* A campaign document exists, and a POST /campaigns carrying a token that
\* was issued and has expired is answered 401.
NoDocumentAccessWithoutSessionWitness ==
    /\ s3Object.exists
    /\ \E ev \in ApiEvents :
          /\ Method(ev) = "POST"
          /\ getAuthFromRequest(ev) \in issued
          /\ verifyToken(table, getAuthFromRequest(ev), now, NoFaults).address = <<>>
          /\ Handle(ev, NoFaults).response = Unauthorized

----------------------------------------------------------------------------
(* C3 *)

\* C3: a sign-in whose claimed address is not in the allowlist, whose nonce is
\* unused and whose signature recovers to the claimed address is answered 401
\* "address not authorized"; no token item is written and the nonce is not
\* recorded.
UnlistedSignerIsRejected ==
    \A ev \in AuthEvents :
        (/\ IsSignIn(ev)
         /\ ~Allowlisted(ev.body.address)
         /\ ~NonceRecorded(table, ev)
         /\ SignerIsClaimed(ev)) =>
            LET h == Handle(ev, NoFaults)
            IN  /\ h.response = NotAuthorized
                /\ ~h.drew
                /\ h.table = table

\* Tokens have been issued to an allowlisted signer, and the sign-in of a
\* signer outside a non-empty allowlist is answered "address not authorized".
UnlistedSignerIsRejectedWitness ==
    /\ issued # {}
    /\ \E ev \in AuthEvents :
          /\ IsSignIn(ev) /\ SignerIsClaimed(ev) /\ ~Allowlisted(ev.body.address)
          /\ ~NonceRecorded(table, ev)
          /\ Handle(ev, NoFaults).response = NotAuthorized

----------------------------------------------------------------------------
(* C4 *)

\* C4: a sign-in puts a nonce item only when the nonce lookup reported the
\* nonce unused, the signature recovers to the claimed address and the claimed
\* address is allowlisted; a sign-in rejected as "invalid signature" or
\* "address not authorized" leaves the table as it was, and a sign-in with the
\* same (message, signature) by its allowlisted signer is then answered 200.
NonceMarkedOnlyAfterVerification ==
    \A ev \in AuthEvents :
        LET h == Handle(ev, NoFaults)
        IN  /\ (Called(h, "noncePut") \/ NonceItems(h.table) # NonceItems(table)) =>
                    /\ IsSignIn(ev)
                    /\ ~NonceRecorded(table, ev)
                    /\ SignerIsClaimed(ev)
                    /\ Allowlisted(ev.body.address)
            /\ h.response \in {InvalidSignature, NotAuthorized} =>
                    /\ h.table = table
                    /\ \A retry \in AuthEvents :
                          (/\ ValidSignIn(retry)
                           /\ retry.body.message = ev.body.message
                           /\ retry.body.signature = ev.body.signature) =>
                              handler(retry, h.table, h.s3Object, now, randomDraws + 1,
                                      NoFaults).response.statusCode = 200

\* After another sign-in was served, a sign-in claiming the wrong address is
\* answered "invalid signature" and the signer's own claim with the same
\* (message, signature) is answered 200.
NonceMarkedOnlyAfterVerificationWitness ==
    /\ issued # {}
    /\ \E ev, retry \in AuthEvents :
          /\ Handle(ev, NoFaults).response = InvalidSignature
          /\ ValidSignIn(retry)
          /\ retry.body.message = ev.body.message
          /\ retry.body.signature = ev.body.signature
          /\ Handle(retry, NoFaults).response.statusCode = 200

----------------------------------------------------------------------------
(* C5 *)

\* C5, as claimed: every POST /auth that does not answer 200, a failed token
\* store write included, leaves the nonce items of the table as they were.
FailedSignInKeepsNonces ==
    \A ev \in FaultyAuthEvents : \A faults \in AuthFaults :
        LET h == Handle(ev, faults)
        IN  h.response.statusCode # 200 =>
                NonceItems(h.table) = NonceItems(table)

\* C5, amended: a POST /auth that does not answer 200 leaves the table as it
\* was, except when the sign-in was fully verified, its nonce item was put and
\* the put of the token item then failed: that request is answered 500 and the
\* table has gained exactly the nonce item of the request.
FailedSignInKeepsNoncesUnlessTokenPutFails ==
    \A ev \in FaultyAuthEvents : \A faults \in AuthFaults :
        LET h == Handle(ev, faults)
        IN  h.response.statusCode # 200 =>
                IF /\ ValidSignIn(ev)
                   /\ ~NonceRecorded(table, ev)
                   /\ ~faults.nonceGet
                   /\ ~faults.noncePut
                   /\ faults.tokenPut
                THEN /\ h.response.statusCode = 500
                     /\ h.table = PutItem(table, NonceItem(NonceOf(ev), ev.body.address, now))
                     /\ h.table # table
                ELSE h.table = table

\* A sign-in failed at the put of the token item: its nonce is recorded, no
\* token was ever returned, and the same sign-in is now answered "signature
\* already used".
FailedSignInKeepsNoncesUnlessTokenPutFailsWitness ==
    /\ issued = {}
    /\ TokenItems(table) = {}
    /\ \E ev \in FaultyAuthEvents :
          /\ ValidSignIn(ev)
          /\ NonceRecorded(table, ev)
          /\ Handle(ev, NoFaults).response = SignatureUsed

----------------------------------------------------------------------------
(* C6 *)

\* C6, as claimed: once a nonce item was put for a (message, signature), no
\* POST /auth carrying that pair is answered 200 at any later time.
ReplayBlockedForever ==
    \A ev \in AuthEvents :
        (IsSignIn(ev) /\ NonceOf(ev) \in nonceWritten) =>
            Handle(ev, NoFaults).response.statusCode # 200

\* C6, amended: while the nonce item of a (message, signature) is in the
\* table, every POST /auth carrying that pair is answered 401 "signature
\* already used"; a nonce item leaves the table only by the store's expiry,
\* once the clock has passed the item's ttl of 7 days after it was put.
ReplayBlockedWhileRecorded ==
    /\ [](\A ev \in AuthEvents :
            (IsSignIn(ev) /\ NonceRecorded(table, ev)) =>
                LET h == Handle(ev, NoFaults)
                IN  /\ h.response = SignatureUsed
                    /\ h.table = table)
    /\ [][\A item \in NonceItems(table) :
            (\A kept \in NonceItems(table') : Key(kept) # Key(item)) =>
                /\ now \div 1000 > item.ttl
                /\ item.ttl = (item.timestamp \div 1000) + 7 * 24 * 60 * 60]_vars

\* More than 7 days after it was put, the nonce item of a sign-in that was
\* served is still in the table and the sign-in is still rejected.
ReplayBlockedWhileRecordedWitness ==
    \E ev \in AuthEvents : \E item \in NonceItems(table) :
        /\ ValidSignIn(ev)
        /\ item.pk = NoncePk(NonceOf(ev))
        /\ now \div 1000 > item.ttl
        /\ Handle(ev, NoFaults).response = SignatureUsed

----------------------------------------------------------------------------
(* C7 *)

\* C7: for every token returned by a sign-in at time t, verifyToken at time
\* now returns the address of the stored item when now - t <= 24h, and null
\* when now - t > 24h.
TokenValidForTwentyFourHours ==
    \A token \in issued :
        LET verified == verifyToken(table, token, now, NoFaults)
            items == GetItem(table, TokenPk(token), "TOKEN")
        IN  IF now - token[2] <= TwentyFourHours
            THEN /\ items # {}
                 /\ \A item \in items :
                       /\ item.timestamp = token[2]
                       /\ verified.address = item.address
                       /\ verified.address # <<>>
            ELSE verified.address = <<>>

\* Of two returned tokens, one is older than 24 hours, still has its item and
\* is rejected; the other is at most 24 hours old and accepted.
TokenValidForTwentyFourHoursWitness ==
    \E old, young \in issued :
        /\ now - old[2] > TwentyFourHours
        /\ GetItem(table, TokenPk(old), "TOKEN") # {}
        /\ verifyToken(table, old, now, NoFaults).address = <<>>
        /\ now - young[2] <= TwentyFourHours
        /\ verifyToken(table, young, now, NoFaults).address # <<>>

----------------------------------------------------------------------------
(* C8 *)

\* C8: every token item of the table belongs to a token returned by a sign-in
\* and holds the lowercased address of that sign-in, which is allowlisted;
\* verifyToken returns an address only for a token that has an item, and
\* never for a well-formed token string without one; a token item enters the
\* table only by a POST /auth whose signature recovers to the claimed,
\* allowlisted address.
TokenItemsComeFromSignIn ==
    /\ [](/\ \A item \in TokenItems(table) :
              \E token \in issued :
                  /\ item.pk = TokenPk(token)
                  /\ item.address = toLowerCase(token[1])
                  /\ Allowlisted(token[1])
          /\ \A token \in issued \cup {ForgedToken} :
                verifyToken(table, token, now, NoFaults).address # <<>> =>
                    \E item \in TokenItems(table) :
                        /\ item.pk = TokenPk(token)
                        /\ item.address = verifyToken(table, token, now, NoFaults).address
          /\ verifyToken(table, ForgedToken, now, NoFaults).address = <<>>)
    /\ [][\A item \in TokenItems(table') \ TokenItems(table) :
            \E ev \in AuthEvents :
                /\ ValidSignIn(ev)
                /\ ~NonceRecorded(table, ev)
                /\ Handle(ev, NoFaults).table = table'
                /\ item.address = toLowerCase(ev.body.address)
                /\ item.address = toLowerCase(
                       verifyMessage(ev.body.message, ev.body.signature).address)]_vars

\* A token item of a signer that signed in with a mixed-case address is in
\* the table, and a forged token string naming that address is not accepted.
TokenItemsComeFromSignInWitness ==
    /\ \E item \in TokenItems(table) : \E token \in issued :
          /\ item.pk = TokenPk(token)
          /\ token[1] # toLowerCase(token[1])
          /\ item.address = ForgedToken[1]
    /\ verifyToken(table, ForgedToken, now, NoFaults).address = <<>>

----------------------------------------------------------------------------
(* C9 *)

\* C9: a sign-in answered 200 returns a token that no earlier sign-in
\* returned, removes no token item and changes the result of verifyToken for
\* no earlier token; two tokens returned to one address within the last 24
\* hours are both accepted by verifyToken.
IssuingKeepsOtherTokens ==
    /\ [](\A first, second \in issued :
            (/\ first # second
             /\ toLowerCase(first[1]) = toLowerCase(second[1])
             /\ now - first[2] <= TwentyFourHours
             /\ now - second[2] <= TwentyFourHours) =>
                /\ verifyToken(table, first, now, NoFaults).address = toLowerCase(first[1])
                /\ verifyToken(table, second, now, NoFaults).address = toLowerCase(second[1]))
    /\ [][\A ev \in AuthEvents :
            (/\ Handle(ev, NoFaults).response.statusCode = 200
             /\ Request(ev, NoFaults)) =>
                /\ Handle(ev, NoFaults).response.body.token \notin issued
                /\ TokenItems(table) \subseteq TokenItems(table')
                /\ \A token \in issued :
                      verifyToken(table', token, now, NoFaults).address =
                          verifyToken(table, token, now, NoFaults).address]_vars

\* The same address signed in twice with different payloads; both tokens are
\* in the table and accepted.
IssuingKeepsOtherTokensWitness ==
    /\ Cardinality(nonceWritten) = 2
    /\ \E first, second \in issued :
          /\ first # second
          /\ toLowerCase(first[1]) = toLowerCase(second[1])
          /\ verifyToken(table, first, now, NoFaults).address # <<>>
          /\ verifyToken(table, second, now, NoFaults).address # <<>>

----------------------------------------------------------------------------
(* C10 *)

\* C10: when the configured allowlist is unset, empty or holds no address, no
\* POST /auth is answered 200, no token was ever returned, the table holds no
\* token item, and every request that is not for /auth and carries any of the
\* authorizations is answered 401.
EmptyAllowlistDeniesAll ==
    (env.ALLOWLIST = <<>> \/ getAllowlist(env.ALLOWLIST) = <<>>) =>
        /\ \A ev \in AuthEvents :
              LET h == Handle(ev, NoFaults)
              IN  /\ h.response.statusCode # 200
                  /\ TokenItems(h.table) = {}
        /\ issued = {}
        /\ TokenItems(table) = {}
        /\ \A ev \in ApiEvents : Handle(ev, NoFaults).response = Unauthorized

\* The allowlist text is set but holds no address, requests were served, and a
\* sign-in whose signature recovers to the claimed address is answered
\* "address not authorized" while a request with a forged token gets 401.
EmptyAllowlistDeniesAllWitness ==
    /\ env.ALLOWLIST # <<>>
    /\ ALLOWLIST = <<>>
    /\ ticks > 0
    /\ \E ev \in AuthEvents :
          /\ IsSignIn(ev) /\ SignerIsClaimed(ev)
          /\ Handle(ev, NoFaults).response = NotAuthorized
    /\ \E ev \in ApiEvents :
          /\ getAuthFromRequest(ev) = ForgedToken
          /\ Handle(ev, NoFaults).response = Unauthorized

----------------------------------------------------------------------------
(* C11 *)

\* C11: the rejection of a sign-in follows the order nonce, signature,
\* allowlist: with the nonce recorded the answer is "signature already used"
\* whatever the signature and the allowlist say; else with a recovered address
\* other than the claimed one it is "invalid signature" whatever the allowlist
\* says; else with the claimed address off the allowlist it is "address not
\* authorized".
RejectionFollowsCheckOrder ==
    \A ev \in AuthEvents :
        IsSignIn(ev) =>
            LET h == Handle(ev, NoFaults)
                recovered == verifyMessage(ev.body.message, ev.body.signature)
            IN  IF NonceRecorded(table, ev)
                THEN h.response = SignatureUsed
                ELSE IF recovered.threw
                THEN h.response.statusCode = 401
                ELSE IF toLowerCase(recovered.address) # toLowerCase(ev.body.address)
                THEN h.response = InvalidSignature
                ELSE IF ~Allowlisted(ev.body.address)
                THEN h.response = NotAuthorized
                ELSE h.response.statusCode = 200

\* A nonce is recorded and a sign-in carrying its payload with a claimed
\* address that is neither the signer nor allowlisted is answered "signature
\* already used", while an unrecorded payload with a wrong claim is answered
\* "invalid signature".
RejectionFollowsCheckOrderWitness ==
    /\ \E ev \in AuthEvents :
          /\ IsSignIn(ev) /\ NonceRecorded(table, ev)
          /\ ~SignerIsClaimed(ev) /\ ~Allowlisted(ev.body.address)
          /\ Handle(ev, NoFaults).response = SignatureUsed
    /\ \E ev \in AuthEvents :
          /\ IsSignIn(ev) /\ ~NonceRecorded(table, ev)
          /\ ~SignerIsClaimed(ev)
          /\ Handle(ev, NoFaults).response = InvalidSignature

----------------------------------------------------------------------------
(* C12 *)

\* C12: a sign-in whose nonce lookup fails at the store is answered 401
\* "Verification error: Database error: ...", whether or not the nonce is
\* recorded; only the lookup is sent, and neither a nonce item nor a token
\* item is put.
FailedLookupRejects ==
    \A ev \in FaultyAuthEvents : \A faults \in AuthFaults :
        (IsSignIn(ev) /\ faults.nonceGet) =>
            LET h == Handle(ev, faults)
            IN  /\ h.response =
                      Response(401, [error |-> "Verification error: Database error: "
                                               \o "DynamoDB error checking nonce: "
                                               \o StoreError])
                /\ h.calls = <<"nonceGet">>
                /\ ~h.drew
                /\ h.table = table

\* With tokens returned and a nonce recorded, a fresh sign-in of an
\* allowlisted signer is answered 200 when the lookup works and 401
\* "Verification error" when it fails.
FailedLookupRejectsWitness ==
    /\ issued # {}
    /\ NonceItems(table) # {}
    /\ \E ev \in FaultyAuthEvents : \E faults \in AuthFaults :
          /\ ValidSignIn(ev) /\ faults.nonceGet
          /\ Handle(ev, faults).response.statusCode = 401
          /\ Handle(ev, faults).response # SignatureUsed
          /\ Handle(ev, NoFaults).response = SignatureUsed

----------------------------------------------------------------------------
(* C13 *)

\* C13: when the put of the nonce item fails after the lookup, the signer
\* test and the allowlist test have passed, and the put of the token item
\* works, the sign-in is answered 200 with a token whose item is in the
\* table, and the nonce stays unrecorded.
FailedMarkStillSignsIn ==
    \A ev \in FaultyAuthEvents : \A faults \in AuthFaults :
        (/\ ValidSignIn(ev)
         /\ ~NonceRecorded(table, ev)
         /\ ~faults.nonceGet
         /\ faults.noncePut
         /\ ~faults.tokenPut) =>
            LET h == Handle(ev, faults)
            IN  /\ h.response.statusCode = 200
                /\ h.response.body.token # <<>>
                /\ GetItem(h.table, TokenPk(h.response.body.token), "TOKEN") # {}
                /\ verifyToken(h.table, h.response.body.token, now, NoFaults).address
                      = toLowerCase(ev.body.address)
                /\ NonceItems(h.table) = NonceItems(table)
                /\ ~NonceRecorded(h.table, ev)

\* A token was returned although no nonce was ever put, and the same payload
\* still signs in.
FailedMarkStillSignsInWitness ==
    /\ issued # {}
    /\ nonceWritten = {}
    /\ \E token \in issued : GetItem(table, TokenPk(token), "TOKEN") # {}
    /\ \E ev \in FaultyAuthEvents :
          /\ ValidSignIn(ev) /\ ~NonceRecorded(table, ev)

----------------------------------------------------------------------------
(* C14 *)

\* C14: two requests behind the authorization gate that differ only in the
\* Authorization header, each with no header, a header that is no Bearer
\* credential, a token never returned or an expired token, get the same
\* response, 401 with the same body.
UnauthorizedIsUniform ==
    \A one, other \in ApiEvents :
        LET Rejects(ev) ==
                \/ getAuthFromRequest(ev) = <<>>
                \/ verifyToken(table, getAuthFromRequest(ev), now, NoFaults).address = <<>>
        IN  (/\ [one EXCEPT !.authorization = NoAuthorization]
                   = [other EXCEPT !.authorization = NoAuthorization]
             /\ Rejects(one)
             /\ Rejects(other)) =>
                /\ Handle(one, NoFaults).response = Handle(other, NoFaults).response
                /\ Handle(one, NoFaults).response.statusCode = 401

\* One request is sent without a header, with a Basic credential, with a
\* forged token and with an expired token whose item is still in the table:
\* all four get the same response.
UnauthorizedIsUniformWitness ==
    \E absent, basic, forged, expired \in ApiEvents :
        /\ absent.authorization = NoAuthorization
        /\ basic.authorization.prefix = "Basic x"
        /\ forged.authorization = Bearer(ForgedToken)
        /\ getAuthFromRequest(expired) \in issued
        /\ GetItem(table, TokenPk(getAuthFromRequest(expired)), "TOKEN") # {}
        /\ now - getAuthFromRequest(expired)[2] > TwentyFourHours
        /\ \A ev \in {basic, forged, expired} :
              /\ [ev EXCEPT !.authorization = NoAuthorization] = absent
              /\ Handle(ev, NoFaults).response = Handle(absent, NoFaults).response

----------------------------------------------------------------------------
(* C15 *)

\* C15: for every input that carries the five required fields and two
\* readable dates, validateCampaign throws when end_date <= start_date or
\* total_amount <= 0, and otherwise returns a record with the input's id and
\* with the input's status, or "active" when the input has none; a served
\* POST /campaigns of such an input with a new id is answered 201 exactly when
\* validateCampaign returns.
ValidateRejectsOnlyBadDatesOrAmount ==
    \A data \in CampaignInputs :
        (/\ \A i \in 1..Len(RequiredFields) : HasField(data, RequiredFields[i])
         /\ IsDateString(data.start_date)
         /\ IsDateString(data.end_date)) =>
            LET validated == validateCampaign(data)
                rejected ==
                    \/ InstantOf(data.end_date) <= InstantOf(data.start_date)
                    \/ IsNumeric(data.total_amount) /\ data.total_amount[2] <= 0
            IN  /\ validated.threw = rejected
                /\ ~rejected =>
                      /\ validated.value.id = data.id
                      /\ validated.value.status =
                            IF HasField(data, "status") THEN data.status
                            ELSE Str("active")
                /\ \A ev \in CampaignEvents :
                      (/\ Method(ev) = "POST"
                       /\ ev.body = data
                       /\ Served(ev)
                       /\ findIndex(Campaigns(s3Object), data.id) = 0) =>
                          (Handle(ev, NoFaults).response.statusCode = 201) = ~rejected

\* The document holds a campaign that validateCampaign returned for an input
\* without a status, with status "active"; the operator's session is live and
\* a POST of a campaign ending as it starts is answered 500.
ValidateRejectsOnlyBadDatesOrAmountWitness ==
    /\ \E i \in 1..Len(Campaigns(s3Object)) : \E data \in CampaignInputs :
          /\ ~HasField(data, "status")
          /\ ~validateCampaign(data).threw
          /\ Campaigns(s3Object)[i] = validateCampaign(data).value
          /\ Campaigns(s3Object)[i].status = Str("active")
    /\ \E ev \in CampaignEvents :
          /\ Method(ev) = "POST" /\ Served(ev)
          /\ IsDateString(ev.body.end_date)
          /\ ev.body.end_date = ev.body.start_date
          /\ Handle(ev, NoFaults).response.statusCode = 500

----------------------------------------------------------------------------
(* C16 *)

\* C16: every campaign of the document in S3 has two readable dates with
\* end_date after start_date and a total_amount that is a number above 0.
StoredCampaignsAreValid ==
    \A i \in 1..Len(Campaigns(s3Object)) :
        LET campaign == Campaigns(s3Object)[i]
        IN  /\ IsDateString(campaign.start_date)
            /\ IsDateString(campaign.end_date)
            /\ InstantOf(campaign.end_date) > InstantOf(campaign.start_date)
            /\ campaign.total_amount[1] = "number"
            /\ campaign.total_amount[2] > 0

----------------------------------------------------------------------------
(* C17 *)

\* C17: every campaign of the document in S3 has the status active, paused
\* or completed.
StoredStatusIsKnown ==
    \A i \in 1..Len(Campaigns(s3Object)) :
        Campaigns(s3Object)[i].status \in {Str("active"), Str("paused"), Str("completed")}

----------------------------------------------------------------------------
(* C18 *)

\* C18: createCampaign with an input whose id is the id of a campaign of the
\* collection throws the duplicate-id error and leaves the collection as it
\* was, whatever the other fields of the input are; a served POST /campaigns
\* of such an input is answered 500 with that error, sends no put and leaves
\* the document as it was.
DuplicateIdIsRefused ==
    \A data \in CampaignInputs :
        LET campaigns == Campaigns(s3Object)
            created == createCampaign(data, campaigns)
        IN  (\E i \in 1..Len(campaigns) : campaigns[i].id = data.id) =>
                /\ created.result.threw
                /\ created.result.message = "Campaign ID already exists"
                /\ created.campaigns = campaigns
                /\ \A ev \in CampaignEvents :
                      (Method(ev) = "POST" /\ ev.body = data /\ Served(ev)) =>
                          LET h == Handle(ev, NoFaults)
                          IN  /\ h.response =
                                    Response(500, [error |-> "Campaign ID already exists"])
                              /\ ~Called(h, "s3Put")
                              /\ h.s3Object = s3Object

\* The document holds c2 and then c1, and a served POST of c1 with an amount
\* of zero is answered with the duplicate-id error.
DuplicateIdIsRefusedWitness ==
    /\ Len(Campaigns(s3Object)) = 2
    /\ Campaigns(s3Object)[2].id = Str("c1")
    /\ \E ev \in CampaignEvents :
          /\ Method(ev) = "POST" /\ Served(ev)
          /\ ev.body.id = Str("c1")
          /\ ev.body.total_amount = Num(0)
          /\ Handle(ev, NoFaults).response =
                Response(500, [error |-> "Campaign ID already exists"])

----------------------------------------------------------------------------
(* C19 *)

\* C19: the ids of the campaigns of the document in S3 are pairwise distinct,
\* and a PUT /campaigns/{id} leaves every id of the document as it was, also
\* when its body carries another id.
IdsStayDistinct ==
    /\ \A i, j \in 1..Len(Campaigns(s3Object)) :
          i # j => Campaigns(s3Object)[i].id # Campaigns(s3Object)[j].id
    /\ \A ev \in CampaignEvents :
          Method(ev) = "PUT" =>
              Ids(Campaigns(Handle(ev, NoFaults).s3Object)) = Ids(Campaigns(s3Object))

\* The document holds c1 and c2, and c1 has the fields of a body that carried
\* the id c2.
IdsStayDistinctWitness ==
    /\ Len(Campaigns(s3Object)) = 2
    /\ \E i \in 1..2 :
          /\ Campaigns(s3Object)[i].id = Str("c1")
          /\ Campaigns(s3Object)[i].token_address = CampaignC2.token_address

----------------------------------------------------------------------------
(* C20 *)

\* C20: a served PUT for a campaign of the document whose start day (UTC) is
\* today or earlier and whose status is not completed is either answered with
\* an error and leaves the document as it was, or is answered 200 and changes
\* nothing but the status of that campaign, to active, paused or completed; a
\* body with a status and a total_amount other than the stored one is
\* answered with an error.
StartedCampaignTakesStatusOnly ==
    \A ev \in CampaignEvents :
        LET campaigns == Campaigns(s3Object)
            index == findIndex(campaigns, Str(CampaignId(ev)))
            h == Handle(ev, NoFaults)
            refused == /\ h.response.statusCode >= 400
                       /\ h.s3Object = s3Object
        IN  (/\ Method(ev) = "PUT"
             /\ Served(ev)
             /\ index # 0
             /\ Started(campaigns[index])
             /\ campaigns[index].status # Str("completed")) =>
                /\ \/ refused
                   \/ /\ h.response.statusCode = 200
                      /\ ev.body.status \in {Str("active"), Str("paused"), Str("completed")}
                      /\ Campaigns(h.s3Object) =
                            [campaigns EXCEPT ![index].status = ev.body.status]
                /\ (/\ HasField(ev.body, "status")
                    /\ ev.body.total_amount # campaigns[index].total_amount) => refused

\* The campaign c1 has started and is not completed; a served PUT with its
\* stored fields and another status is answered 200, and one that also
\* carries another amount is answered 500.
StartedCampaignTakesStatusOnlyWitness ==
    \E i \in 1..Len(Campaigns(s3Object)) :
        LET campaign == Campaigns(s3Object)[i]
        IN  /\ campaign.id = Str("c1")
            /\ Started(campaign)
            /\ campaign.status # Str("completed")
            /\ \E accepted, refused \in CampaignEvents :
                  /\ Method(accepted) = "PUT" /\ Served(accepted)
                  /\ CampaignId(accepted) = "c1"
                  /\ accepted.body.status # campaign.status
                  /\ Handle(accepted, NoFaults).response.statusCode = 200
                  /\ Method(refused) = "PUT" /\ Served(refused)
                  /\ CampaignId(refused) = "c1"
                  /\ refused.body.status = Str("paused")
                  /\ refused.body.total_amount = Num(200)
                  /\ Handle(refused, NoFaults).response.statusCode = 500

----------------------------------------------------------------------------
(* C21 *)

\* C21: a served PUT whose body carries a status among active, paused and
\* completed and no other field, for a campaign of the document whose start
\* day (UTC) is today or earlier and whose status is not completed, is
\* answered 200, sets the stored status to that value and leaves the other
\* fields of the campaign as they were.
StatusOnlyUpdateSucceeds ==
    \A ev \in CampaignEvents :
        LET campaigns == Campaigns(s3Object)
            index == findIndex(campaigns, Str(CampaignId(ev)))
            h == Handle(ev, NoFaults)
        IN  (/\ Method(ev) = "PUT"
             /\ Served(ev)
             /\ \A f \in CampaignFields \ {"status"} : ~HasField(ev.body, f)
             /\ ev.body.status \in StatusValues
             /\ index # 0
             /\ Started(campaigns[index])
             /\ campaigns[index].status # Str("completed")) =>
                /\ h.response.statusCode = 200
                /\ Campaigns(h.s3Object) =
                      [campaigns EXCEPT ![index].status = ev.body.status]

----------------------------------------------------------------------------
(* C22 *)

\* C22: a served PUT or DELETE for a campaign of the document whose status is
\* completed is answered with an error and leaves the document as it was;
\* and a campaign of the document whose status is completed is, after every
\* step, still in the document with every field as it was.
CompletedCampaignIsImmutable ==
    /\ [](\A ev \in CampaignEvents :
            LET campaigns == Campaigns(s3Object)
                index == findIndex(campaigns, Str(CampaignId(ev)))
                h == Handle(ev, NoFaults)
            IN  (/\ Method(ev) \in {"PUT", "DELETE"}
                 /\ Served(ev)
                 /\ index # 0
                 /\ campaigns[index].status = Str("completed")) =>
                    /\ h.response.statusCode >= 400
                    /\ h.s3Object = s3Object)
    /\ [][\A i \in 1..Len(Campaigns(s3Object)) :
            Campaigns(s3Object)[i].status = Str("completed") =>
                \E j \in 1..Len(Campaigns(s3Object')) :
                    Campaigns(s3Object')[j] = Campaigns(s3Object)[i]]_vars

\* The campaign c1 is completed and has not started; a served PUT of c1 with
\* its stored fields and another status, and a served DELETE of c1, are both
\* answered 500.
CompletedCampaignIsImmutableWitness ==
    \E i \in 1..Len(Campaigns(s3Object)) :
        LET campaign == Campaigns(s3Object)[i]
        IN  /\ campaign.id = Str("c1")
            /\ campaign.status = Str("completed")
            /\ ~Started(campaign)
            /\ \E put, delete \in CampaignEvents :
                  /\ Method(put) = "PUT" /\ Served(put)
                  /\ CampaignId(put) = "c1"
                  /\ put.body.status = Str("paused")
                  /\ put.body.total_amount = campaign.total_amount
                  /\ Handle(put, NoFaults).response.statusCode = 500
                  /\ Method(delete) = "DELETE" /\ Served(delete)
                  /\ CampaignId(delete) = "c1"
                  /\ Handle(delete, NoFaults).response.statusCode = 500

----------------------------------------------------------------------------
(* C23 *)

\* C23: deleteCampaign for a campaign of the document returns true exactly
\* when the campaign's status is not completed and its start day (UTC) is
\* after today; when it returns true the collection is left without that
\* campaign and otherwise as it was, and when it does not it throws and
\* leaves the collection as it was.  A served DELETE is answered 200 and
\* saves the collection without the campaign in the first case, and is
\* answered with an error and leaves the document as it was in the second.
DeleteOnlyBeforeStart ==
    LET campaigns == Campaigns(s3Object)
    IN  \A i \in 1..Len(campaigns) :
            LET deleted == deleteCampaign(campaigns[i].id, campaigns, now)
                deletable == /\ campaigns[i].status # Str("completed")
                             /\ ~Started(campaigns[i])
                without == [k \in 1..(Len(campaigns) - 1) |->
                               IF k < i THEN campaigns[k] ELSE campaigns[k + 1]]
            IN  /\ deleted.result.truthy = deletable
                /\ deleted.result.threw = ~deletable
                /\ deleted.campaigns = IF deletable THEN without ELSE campaigns
                /\ \A ev \in CampaignEvents :
                      (/\ Method(ev) = "DELETE"
                       /\ Served(ev)
                       /\ Str(CampaignId(ev)) = campaigns[i].id) =>
                          LET h == Handle(ev, NoFaults)
                          IN  IF deletable
                              THEN /\ h.response.statusCode = 200
                                   /\ Campaigns(h.s3Object) = without
                              ELSE /\ h.response.statusCode >= 400
                                   /\ h.s3Object = s3Object

\* The document holds c1, which started today, and then c2, which starts
\* tomorrow and is not completed: a served DELETE of c1 is answered 500 and
\* one of c2 is answered 200.
DeleteOnlyBeforeStartWitness ==
    /\ Len(Campaigns(s3Object)) = 2
    /\ Campaigns(s3Object)[1].id = Str("c1")
    /\ Campaigns(s3Object)[1].start_date[2] = now \div (24 * 60 * 60 * 1000)
    /\ Campaigns(s3Object)[1].status # Str("completed")
    /\ Campaigns(s3Object)[2].id = Str("c2")
    /\ ~Started(Campaigns(s3Object)[2])
    /\ \E refused, accepted \in CampaignEvents :
          /\ Method(refused) = "DELETE" /\ Served(refused)
          /\ CampaignId(refused) = "c1"
          /\ Handle(refused, NoFaults).response.statusCode = 500
          /\ Method(accepted) = "DELETE" /\ Served(accepted)
          /\ CampaignId(accepted) = "c2"
          /\ Handle(accepted, NoFaults).response.statusCode = 200

----------------------------------------------------------------------------
(* C24 *)

\* C24: a POST /campaigns is acknowledged with 201 on the strength of the
\* array it loaded alone: the id of its body is not in that array, whatever
\* the document holds by then, and the document it puts is that array with
\* its own campaign appended.  Its save replaces the whole document with that
\* one; so when another POST that loaded the same array and carried another
\* id was acknowledged before, the saved document does not hold the other's
\* campaign, and when the other carried the same id both are acknowledged
\* and the document holds the campaign of the one that saved last.
LastCreateWins ==
    /\ [](\A slot \in Slots :
            LET call == inflight[slot]
            IN  (call.pc \in {"save", "done"} /\ call.response.statusCode = 201) =>
                    /\ findIndex(call.loaded, call.ev.body.id) = 0
                    /\ Campaigns(call.put) =
                          Append(call.loaded, validateCampaign(call.ev.body).value))
    /\ [][\A slot \in Slots :
            (inflight[slot].pc = "save" /\ inflight'[slot].pc = "done") =>
                /\ inflight'[slot].response.statusCode = 201
                /\ s3Object' = inflight[slot].put
                /\ \A other \in Slots \ {slot} :
                      (/\ inflight[other].pc = "done"
                       /\ inflight[other].response.statusCode = 201
                       /\ inflight[other].loaded = inflight[slot].loaded) =>
                          IF inflight[other].ev.body.id = inflight[slot].ev.body.id
                          THEN Campaigns(s3Object') =
                                  Append(inflight[slot].loaded,
                                         validateCampaign(inflight[slot].ev.body).value)
                          ELSE findIndex(Campaigns(s3Object'),
                                         inflight[other].ev.body.id) = 0]_vars

\* Two invocations that loaded the same array have both been acknowledged
\* with 201 for campaigns with different ids, and the document holds the
\* campaign of one of them and not that of the other.
LastCreateWinsWitness ==
    \E first, last \in Slots :
        /\ first # last
        /\ inflight[first].pc = "done" /\ inflight[last].pc = "done"
        /\ inflight[first].response.statusCode = 201
        /\ inflight[last].response.statusCode = 201
        /\ inflight[first].loaded = inflight[last].loaded
        /\ inflight[first].ev.body.id # inflight[last].ev.body.id
        /\ s3Object = inflight[last].put
        /\ findIndex(Campaigns(s3Object), inflight[first].ev.body.id) = 0
        /\ findIndex(Campaigns(s3Object), inflight[last].ev.body.id) # 0

----------------------------------------------------------------------------
(* C25 *)

\* C25: a served POST with the id of a campaign of the document, a served PUT
\* (with a body that is JSON) for a started campaign that is not completed
\* with a status outside the three or with a field other than the stored
\* one, a served PUT for a completed campaign, and a served DELETE for a started or a completed
\* campaign are each answered 500 with the message of the error as the only
\* field of the body, which is the shape of the answer to the same request
\* when the load of the document fails; the document is left as it was.
RefusalsLookLikeStoreErrors ==
    \A ev \in CampaignEvents :
        LET campaigns == Campaigns(s3Object)
            index == findIndex(campaigns, Str(CampaignId(ev)))
            target == campaigns[index]
            h == Handle(ev, NoFaults)
            broken == Handle(ev, [NoFaults EXCEPT !.s3Get = TRUE])
            generic(message) ==
                /\ h.response = Response(500, [error |-> message])
                /\ h.s3Object = s3Object
                /\ broken.response.statusCode = h.response.statusCode
                /\ DOMAIN broken.response.body = DOMAIN h.response.body
                /\ broken.response.body.error = "Failed to load campaigns: " \o StoreError
        IN  Served(ev) =>
                /\ (/\ Method(ev) = "POST"
                    /\ findIndex(campaigns, ev.body.id) # 0) =>
                        generic("Campaign ID already exists")
                /\ (/\ Method(ev) = "PUT" /\ ev.body.parses /\ index # 0
                    /\ Started(target) /\ target.status # Str("completed")
                    /\ ev.body.status \notin StatusValues) =>
                        generic("Can only change status for active campaigns. Use pause/resume.")
                /\ (/\ Method(ev) = "PUT" /\ ev.body.parses /\ index # 0
                    /\ Started(target) /\ target.status # Str("completed")
                    /\ ev.body.status \in StatusValues
                    /\ \E f \in {"token_address", "total_amount", "start_date", "end_date"} :
                          ev.body[f] # target[f]) =>
                        generic("Cannot change campaign fields for active campaigns. Only status can be changed.")
                /\ (/\ Method(ev) = "PUT" /\ ev.body.parses /\ index # 0
                    /\ target.status = Str("completed")) =>
                        generic("Campaign cannot be edited (already started or completed)")
                /\ (/\ Method(ev) = "DELETE" /\ index # 0
                    /\ (Started(target) \/ target.status = Str("completed"))) =>
                        generic("Campaign cannot be deleted (already started or completed). Use pause/complete instead.")

\* The campaign c1 has started and is not completed; a served POST of c1, a
\* served PUT of c1 with the status "bogus", one with another amount and a
\* served DELETE of c1 are all answered 500.
RefusalsLookLikeStoreErrorsWitness ==
    \E i \in 1..Len(Campaigns(s3Object)) :
        LET campaign == Campaigns(s3Object)[i]
        IN  /\ campaign.id = Str("c1")
            /\ Started(campaign)
            /\ campaign.status # Str("completed")
            /\ \E ev \in CampaignEvents :
                  /\ Method(ev) = "POST" /\ Served(ev)
                  /\ ev.body.id = Str("c1")
                  /\ Handle(ev, NoFaults).response.statusCode = 500
            /\ \E ev \in CampaignEvents :
                  /\ Method(ev) = "PUT" /\ Served(ev)
                  /\ CampaignId(ev) = "c1"
                  /\ ev.body.status = Str("bogus")
                  /\ Handle(ev, NoFaults).response.statusCode = 500
            /\ \E ev \in CampaignEvents :
                  /\ Method(ev) = "PUT" /\ Served(ev)
                  /\ CampaignId(ev) = "c1"
                  /\ ev.body.status = Str("paused")
                  /\ ev.body.total_amount = Num(200)
                  /\ Handle(ev, NoFaults).response.statusCode = 500
            /\ \E ev \in CampaignEvents :
                  /\ Method(ev) = "DELETE" /\ Served(ev)
                  /\ CampaignId(ev) = "c1"
                  /\ Handle(ev, NoFaults).response.statusCode = 500

----------------------------------------------------------------------------
(* C26 *)

\* C26 as stated: a served GET, PUT or DELETE for an id that no campaign of
\* the document has is answered 404, sends no put and leaves the document as
\* it was.
MissingCampaignIsNotFound ==
    \A ev \in CampaignEvents :
        LET h == Handle(ev, NoFaults)
        IN  (/\ Method(ev) \in {"GET", "PUT", "DELETE"}
             /\ Served(ev)
             /\ CampaignId(ev) # ""
             /\ findIndex(Campaigns(s3Object), Str(CampaignId(ev))) = 0) =>
                /\ h.response.statusCode = 404
                /\ ~Called(h, "s3Put")
                /\ h.s3Object = s3Object

\* C26, amended: a served GET, PUT or DELETE for an id that no campaign of the
\* document has sends no put and leaves the document as it was; it is
\* answered 404, except a PUT whose body is no JSON, which is answered 500.
\* updateCampaign and deleteCampaign return a falsy value for such an id and
\* leave the collection as it was.
MissingCampaignIsNotFoundWhenBodyParses ==
    \A ev \in CampaignEvents :
        LET campaigns == Campaigns(s3Object)
            campaignId == Str(CampaignId(ev))
            h == Handle(ev, NoFaults)
        IN  (/\ Method(ev) \in {"GET", "PUT", "DELETE"}
             /\ Served(ev)
             /\ CampaignId(ev) # ""
             /\ findIndex(campaigns, campaignId) = 0) =>
                /\ h.response.statusCode =
                      IF Method(ev) = "PUT" /\ ~ev.body.parses THEN 500 ELSE 404
                /\ ~Called(h, "s3Put")
                /\ h.s3Object = s3Object
                /\ updateCampaign(campaignId, ev.body, campaigns, now) =
                      Outcome(Falsy, campaigns)
                /\ deleteCampaign(campaignId, campaigns, now) =
                      Outcome(Falsy, campaigns)

\* The document holds c2 and not c1; a served GET, a served PUT with the
\* fields of c1 and a served DELETE of c1 are answered 404, and a served PUT
\* of c1 with a body that is no JSON is answered 500.
MissingCampaignIsNotFoundWhenBodyParsesWitness ==
    /\ Len(Campaigns(s3Object)) = 1
    /\ Campaigns(s3Object)[1].id = Str("c2")
    /\ \E ev \in CampaignEvents :
          /\ Method(ev) = "GET" /\ Served(ev)
          /\ CampaignId(ev) = "c1"
          /\ Handle(ev, NoFaults).response.statusCode = 404
    /\ \E ev \in CampaignEvents :
          /\ Method(ev) = "PUT" /\ Served(ev)
          /\ CampaignId(ev) = "c1"
          /\ ev.body = CampaignC1
          /\ Handle(ev, NoFaults).response.statusCode = 404
    /\ \E ev \in CampaignEvents :
          /\ Method(ev) = "DELETE" /\ Served(ev)
          /\ CampaignId(ev) = "c1"
          /\ Handle(ev, NoFaults).response.statusCode = 404
    /\ \E ev \in CampaignEvents :
          /\ Method(ev) = "PUT" /\ Served(ev)
          /\ CampaignId(ev) = "c1"
          /\ ~ev.body.parses
          /\ Handle(ev, NoFaults).response.statusCode = 500

----------------------------------------------------------------------------
(* C27 *)

\* C27: whichever store calls fail, a request ends with one response whose
\* status is one of the handler's, it issues no store call twice, and a
\* token put, token get, campaign load or campaign save that fails is the
\* last store call of the request.
NoStoreCallIsRetried ==
    \A ev \in FaultyAuthEvents \cup FaultyApiEvents :
        \A faults \in IF IsAuthEvent(ev) THEN AuthFaultCases ELSE ApiFaultCases :
        LET h == Handle(ev, faults)
        IN  /\ h.response.statusCode \in StatusCodes
            /\ \A i, j \in 1..Len(h.calls) : i # j => h.calls[i] # h.calls[j]
            /\ \A i \in 1..Len(h.calls) :
                  (/\ h.calls[i] \in {"tokenPut", "tokenGet", "s3Get", "s3Put"}
                   /\ faults[h.calls[i]]) => i = Len(h.calls)

\* A session is live: a POST /campaigns whose save fails has issued the token
\* get, the load and the save and is answered 500, and one whose load fails
\* has issued the token get and the load; an expired token is in the table,
\* and a request with it whose delete fails has issued the get and the
\* delete.
NoStoreCallIsRetriedWitness ==
    /\ \E ev \in FaultyApiEvents :
          /\ Method(ev) = "POST"
          /\ Handle(ev, [NoFaults EXCEPT !.s3Put = TRUE]).calls =
                <<"tokenGet", "s3Get", "s3Put">>
          /\ Handle(ev, [NoFaults EXCEPT !.s3Put = TRUE]).response.statusCode = 500
          /\ Handle(ev, [NoFaults EXCEPT !.s3Get = TRUE]).calls = <<"tokenGet", "s3Get">>
    /\ \E ev \in FaultyApiEvents :
          Handle(ev, [NoFaults EXCEPT !.tokenDelete = TRUE]).calls =
              <<"tokenGet", "tokenDelete">>

----------------------------------------------------------------------------
(* C28 *)

\* C28: whichever store call fails, a request sends at most one put of the
\* document, and sends it only when it is a POST, PUT or DELETE whose
\* createCampaign, updateCampaign or deleteCampaign returned a truthy value
\* for the loaded campaigns; the document changes only by a put that
\* succeeded, in a request answered 200 or 201; and a GET, and a request
\* answered 401, 404 or 405, sends no put and leaves the document as it was,
\* as does a request answered 500 whose put was not sent or failed.
DocumentWrittenOnlyAfterSuccess ==
    \A ev \in CampaignEvents \cup ApiEvents : \A faults \in ApiFaults :
        LET campaigns == Campaigns(s3Object)
            campaignId == Str(CampaignId(ev))
            h == Handle(ev, faults)
            done == CASE Method(ev) = "POST" -> createCampaign(ev.body, campaigns)
                      [] Method(ev) = "PUT" ->
                            updateCampaign(campaignId, ev.body, campaigns, now)
                      [] OTHER -> deleteCampaign(campaignId, campaigns, now)
            puts == {i \in 1..Len(h.calls) : h.calls[i] = "s3Put"}
        IN  /\ Cardinality(puts) <= 1
            /\ puts # {} =>
                  /\ Method(ev) \in {"POST", "PUT", "DELETE"}
                  /\ Served(ev)
                  /\ ~done.result.threw /\ done.result.truthy
                  /\ h.s3Object = IF faults.s3Put THEN s3Object
                                  ELSE saveCampaigns(done.campaigns, s3Object, NoFaults).object
            /\ h.s3Object # s3Object =>
                  /\ puts # {}
                  /\ h.response.statusCode \in {200, 201}
            /\ (\/ Method(ev) = "GET"
                \/ h.response.statusCode \in {401, 404, 405}) =>
                  /\ puts = {}
                  /\ h.s3Object = s3Object
            /\ h.response.statusCode = 500 => h.s3Object = s3Object

\* The document holds c1, which has started; with the session that is live a
\* GET of the list is answered 200, a DELETE of c2 404, a PATCH 405 and a
\* DELETE of c1 500, a request with a forged token is answered 401, and a PUT
\* that changes the status of c1 is answered 200 and changes the document.
DocumentWrittenOnlyAfterSuccessWitness ==
    /\ Len(Campaigns(s3Object)) = 1
    /\ Campaigns(s3Object)[1].id = Str("c1")
    /\ Started(Campaigns(s3Object)[1])
    /\ \E ev \in ApiEvents : Handle(ev, NoFaults).response.statusCode = 401
    /\ \E ev \in CampaignEvents :
          /\ Method(ev) = "GET" /\ Served(ev)
          /\ Handle(ev, NoFaults).response.statusCode = 200
    /\ \E ev \in CampaignEvents :
          /\ Method(ev) = "DELETE" /\ Served(ev)
          /\ Handle(ev, NoFaults).response.statusCode = 404
    /\ \E ev \in CampaignEvents :
          /\ Method(ev) = "PATCH" /\ Served(ev)
          /\ Handle(ev, NoFaults).response.statusCode = 405
    /\ \E ev \in CampaignEvents :
          /\ Method(ev) = "DELETE" /\ Served(ev)
          /\ Handle(ev, NoFaults).response.statusCode = 500
    /\ \E ev \in CampaignEvents :
          /\ Method(ev) = "PUT" /\ Served(ev)
          /\ Handle(ev, NoFaults).response.statusCode = 200
          /\ Handle(ev, NoFaults).s3Object # s3Object

----------------------------------------------------------------------------
(* C29 *)

\* C29: for a token whose item in the table is older than 24 hours,
\* verifyToken returns null after a get and a delete, and the table it leaves
\* is the table without that one item; a request with the token is answered
\* 401 and leaves the table so.  And a token issued earlier that is not
\* accepted before a step is not accepted after it.
ExpiredTokenIsDeletedAndStaysRejected ==
    /\ [](\A token \in issued : \A item \in TokenItems(table) :
            (item.pk = TokenPk(token) /\ now - item.timestamp > TwentyFourHours) =>
                /\ verifyToken(table, token, now, NoFaults) =
                      [address |-> <<>>, table |-> table \ {item},
                       calls |-> <<"tokenGet", "tokenDelete">>]
                /\ \A ev \in ApiEvents :
                      ev.authorization = Bearer(token) =>
                          /\ Handle(ev, NoFaults).response = Unauthorized
                          /\ Handle(ev, NoFaults).table = table \ {item}
                          /\ Handle(ev, NoFaults).s3Object = s3Object)
    /\ [][\A token \in issued :
            ~ValidSession(token) =>
                verifyToken(table', token, now', NoFaults).address = <<>>]_vars

\* The table holds the item of an issued token that is older than 24 hours,
\* the item of another token and a nonce item, and a request with the first
\* token is answered 401 and leaves the table without that item alone.
ExpiredTokenIsDeletedAndStaysRejectedWitness ==
    \E token \in issued : \E item \in TokenItems(table) :
        /\ item.pk = TokenPk(token)
        /\ now - item.timestamp > TwentyFourHours
        /\ TokenItems(table) \ {item} # {}
        /\ NonceItems(table) # {}
        /\ \E ev \in ApiEvents :
              /\ ev.authorization = Bearer(token)
              /\ Handle(ev, NoFaults).response = Unauthorized
              /\ Handle(ev, NoFaults).table = table \ {item}

----------------------------------------------------------------------------
(* C30 *)

\* C30: a served PUT for a campaign of the document whose start day (UTC) is
\* after today and whose status is not completed, with a body that
\* validateCampaign accepts once its id is replaced by the id of the path, is
\* answered 200 and puts the validated body, with the id of the path, in the
\* place of the stored record; with a body that validateCampaign rejects, a
\* body without a required field included, it is answered with an error and
\* leaves the document as it was.
UpdateBeforeStartReplacesRecord ==
    \A ev \in CampaignEvents :
        LET campaigns == Campaigns(s3Object)
            campaignId == Str(CampaignId(ev))
            index == findIndex(campaigns, campaignId)
            validated == validateCampaign([ev.body EXCEPT !.id = campaignId])
            h == Handle(ev, NoFaults)
        IN  (/\ Method(ev) = "PUT"
             /\ Served(ev)
             /\ ev.body.parses
             /\ index # 0
             /\ ~Started(campaigns[index])
             /\ campaigns[index].status # Str("completed")) =>
                /\ (\E f \in {"token_address", "total_amount", "start_date", "end_date"} :
                        ~HasField(ev.body, f)) => validated.threw
                /\ IF validated.threw
                   THEN /\ h.response.statusCode >= 400
                        /\ h.s3Object = s3Object
                   ELSE /\ h.response.statusCode = 200
                        /\ validated.value.id = campaignId
                        /\ Len(Campaigns(h.s3Object)) = Len(campaigns)
                        /\ \A k \in 1..Len(campaigns) :
                              Campaigns(h.s3Object)[k] =
                                  IF k = index
                                  THEN [f \in CampaignFields |->
                                          CASE f = "id" -> campaignId
                                            [] f = "total_amount" ->
                                                  parseFloat(ev.body.total_amount)
                                            [] f = "status" ->
                                                  IF Truthy(ev.body.status)
                                                  THEN ev.body.status
                                                  ELSE Str("active")
                                            [] OTHER -> ev.body[f]]
                                  ELSE campaigns[k]

\* The document holds c1 and then c2, neither started nor completed: a served
\* PUT of c2 with the fields of c1, id included, is answered 200, a served
\* PUT of c1 without token_address and one with a status alone are answered
\* 500.
UpdateBeforeStartReplacesRecordWitness ==
    /\ Len(Campaigns(s3Object)) = 2
    /\ Campaigns(s3Object)[1].id = Str("c1")
    /\ Campaigns(s3Object)[2].id = Str("c2")
    /\ \A i \in 1..2 : /\ ~Started(Campaigns(s3Object)[i])
                       /\ Campaigns(s3Object)[i].status # Str("completed")
    /\ \E ev \in CampaignEvents :
          /\ Method(ev) = "PUT" /\ Served(ev)
          /\ CampaignId(ev) = "c2"
          /\ ev.body.id = Str("c1")
          /\ Handle(ev, NoFaults).response.statusCode = 200
          /\ Campaigns(Handle(ev, NoFaults).s3Object)[2].id = Str("c2")
          /\ Campaigns(Handle(ev, NoFaults).s3Object)[2].token_address =
                CampaignC1.token_address
    /\ \E ev \in CampaignEvents :
          /\ Method(ev) = "PUT" /\ Served(ev)
          /\ CampaignId(ev) = "c1"
          /\ ~HasField(ev.body, "token_address")
          /\ HasField(ev.body, "total_amount")
          /\ Handle(ev, NoFaults).response.statusCode = 500
    /\ \E ev \in CampaignEvents :
          /\ Method(ev) = "PUT" /\ Served(ev)
          /\ CampaignId(ev) = "c1"
          /\ ~HasField(ev.body, "total_amount")
          /\ Handle(ev, NoFaults).response.statusCode = 500

----------------------------------------------------------------------------
(* C31 *)

\* C31: a POST answered 201 leaves the document with every campaign it held,
\* in the same places, and with the new campaign after them; a PUT answered
\* 200 leaves every campaign but the one with the id of the path as it was
\* and where it was; a DELETE answered 200 leaves the campaigns other than
\* the one with the id of the path, in the order they were in.
WritesTouchOnlyTheTarget ==
    \A ev \in CampaignEvents :
        LET campaigns == Campaigns(s3Object)
            index == findIndex(campaigns, Str(CampaignId(ev)))
            h == Handle(ev, NoFaults)
            after == Campaigns(h.s3Object)
        IN  /\ (Method(ev) = "POST" /\ h.response.statusCode = 201) =>
                  /\ Len(after) = Len(campaigns) + 1
                  /\ \A k \in 1..Len(campaigns) : after[k] = campaigns[k]
                  /\ after[Len(after)].id = ev.body.id
                  /\ after[Len(after)].token_address = ev.body.token_address
            /\ (Method(ev) = "PUT" /\ h.response.statusCode = 200) =>
                  /\ index # 0
                  /\ Len(after) = Len(campaigns)
                  /\ \A k \in 1..Len(campaigns) : k # index => after[k] = campaigns[k]
            /\ (Method(ev) = "DELETE" /\ h.response.statusCode = 200) =>
                  /\ index # 0
                  /\ Len(after) = Len(campaigns) - 1
                  /\ \A k \in 1..Len(after) :
                        after[k] = IF k < index THEN campaigns[k] ELSE campaigns[k + 1]

\* The document holds c1 and then c2, neither started: a served DELETE of c1
\* is answered 200 and leaves c2 alone, a served PUT of c1 with another
\* amount is answered 200 and leaves c2 second; and c2 was appended behind
\* c1.
WritesTouchOnlyTheTargetWitness ==
    /\ Len(Campaigns(s3Object)) = 2
    /\ Campaigns(s3Object)[1].id = Str("c1")
    /\ Campaigns(s3Object)[2].id = Str("c2")
    /\ \E ev \in CampaignEvents :
          /\ Method(ev) = "DELETE" /\ CampaignId(ev) = "c1"
          /\ Handle(ev, NoFaults).response.statusCode = 200
          /\ Campaigns(Handle(ev, NoFaults).s3Object) = <<Campaigns(s3Object)[2]>>
    /\ \E ev \in CampaignEvents :
          /\ Method(ev) = "PUT" /\ CampaignId(ev) = "c1"
          /\ ev.body.total_amount = Num(200)
          /\ Handle(ev, NoFaults).response.statusCode = 200
          /\ Campaigns(Handle(ev, NoFaults).s3Object)[1].total_amount = Num(200)
          /\ Campaigns(Handle(ev, NoFaults).s3Object)[2] = Campaigns(s3Object)[2]

----------------------------------------------------------------------------
(* C32 *)

\* C32: of the invocations under way for a POST /auth with the same message
\* and signature, at most one has been answered 200 with a token.
OneTokenPerSignature ==
    \A first, second \in Slots :
        (/\ first # second
         /\ inflight[first].pc = "done" /\ inflight[second].pc = "done"
         /\ inflight[first].ev.body.message = inflight[second].ev.body.message
         /\ inflight[first].ev.body.signature = inflight[second].ev.body.signature) =>
            ~(/\ inflight[first].response.statusCode = 200
              /\ inflight[second].response.statusCode = 200)

----------------------------------------------------------------------------
(* C33 *)

\* C33: when the get of the token item fails, or the item is older than 24
\* hours and its delete fails, verifyToken returns null and leaves the table
\* as it was, and the request is answered 401, sends neither a load nor a
\* save of the document and leaves the document as it was.
TokenCheckFailsClosed ==
    \A ev \in FaultyApiEvents : \A faults \in ApiFaultCases :
        LET token == getAuthFromRequest(ev)
            verified == verifyToken(table, token, now, faults)
            h == Handle(ev, faults)
        IN  (/\ token # <<>>
             /\ \/ faults.tokenGet
                \/ /\ faults.tokenDelete
                   /\ \E item \in TokenItems(table) :
                         /\ item.pk = TokenPk(token)
                         /\ now - item.timestamp > TwentyFourHours) =>
                /\ verified.address = <<>>
                /\ verified.table = table
                /\ h.response = Unauthorized
                /\ ~Called(h, "s3Get") /\ ~Called(h, "s3Put")
                /\ h.s3Object = s3Object
                /\ h.table = table

\* The table holds the item of an issued token that is older than 24 hours:
\* a POST /campaigns with that token is answered 401 when the delete of the
\* item fails, having sent the get and the delete alone, and when the get
\* fails, having sent the get alone.
TokenCheckFailsClosedWitness ==
    \E ev \in FaultyApiEvents :
        /\ Method(ev) = "POST"
        /\ \E item \in TokenItems(table) :
              /\ item.pk = TokenPk(getAuthFromRequest(ev))
              /\ now - item.timestamp > TwentyFourHours
        /\ Handle(ev, [NoFaults EXCEPT !.tokenDelete = TRUE]).response = Unauthorized
        /\ Handle(ev, [NoFaults EXCEPT !.tokenDelete = TRUE]).calls =
              <<"tokenGet", "tokenDelete">>
        /\ Handle(ev, [NoFaults EXCEPT !.tokenGet = TRUE]).response = Unauthorized
        /\ Handle(ev, [NoFaults EXCEPT !.tokenGet = TRUE]).calls = <<"tokenGet">>

----------------------------------------------------------------------------
(* C34 *)

\* C34: requests are handled one after another and the clock never goes
\* back; a campaign of the document whose start day (UTC) is today or
\* earlier is, after every step, still in the document under its id with its
\* token_address, total_amount, start_date and end_date as they were, and its
\* start day is still today or earlier.
StartedCampaignIsKept ==
    [][/\ now' >= now
       /\ \A i \in 1..Len(Campaigns(s3Object)) :
            LET campaign == Campaigns(s3Object)[i]
            IN  Started(campaign) =>
                    \E j \in 1..Len(Campaigns(s3Object')) :
                        LET kept == Campaigns(s3Object')[j]
                        IN  /\ kept.id = campaign.id
                            /\ kept.token_address = campaign.token_address
                            /\ kept.total_amount = campaign.total_amount
                            /\ kept.start_date = campaign.start_date
                            /\ kept.end_date = campaign.end_date
                            /\ kept.start_date[2] <= now' \div (24 * 60 * 60 * 1000)]_vars

\* The document holds c1, which has started and is paused, and then c2: a served DELETE of c1 and a served PUT of c1 with
\* another amount are answered 500 and leave the document as it was, a served
\* PUT of c1 with its stored fields and the status completed is answered 200
\* and changes its status alone, and a served POST of c1 is answered 500
\* and leaves the document as it was.
StartedCampaignIsKeptWitness ==
    /\ Len(Campaigns(s3Object)) = 2
    /\ Campaigns(s3Object)[1].id = Str("c1")
    /\ Started(Campaigns(s3Object)[1])
    /\ Campaigns(s3Object)[1].status = Str("paused")
    /\ Campaigns(s3Object)[2].id = Str("c2")
    /\ \E delete \in CampaignEvents :
          /\ Method(delete) = "DELETE" /\ Served(delete)
          /\ CampaignId(delete) = "c1"
          /\ Handle(delete, NoFaults).response.statusCode = 500
          /\ Handle(delete, NoFaults).s3Object = s3Object
    /\ \E edit \in CampaignEvents :
          /\ Method(edit) = "PUT" /\ Served(edit)
          /\ CampaignId(edit) = "c1"
          /\ edit.body.parses
          /\ edit.body.total_amount = Num(200)
          /\ Handle(edit, NoFaults).response.statusCode = 500
          /\ Handle(edit, NoFaults).s3Object = s3Object
    /\ \E complete \in CampaignEvents :
          /\ Method(complete) = "PUT" /\ Served(complete)
          /\ CampaignId(complete) = "c1"
          /\ complete.body.parses
          /\ complete.body.status = Str("completed")
          /\ Handle(complete, NoFaults).response.statusCode = 200
          /\ Campaigns(Handle(complete, NoFaults).s3Object) =
                [Campaigns(s3Object) EXCEPT ![1].status = Str("completed")]
    /\ \E create \in CampaignEvents :
          /\ Method(create) = "POST" /\ Served(create)
          /\ create.body.id = Str("c1")
          /\ Handle(create, NoFaults).response.statusCode = 500
          /\ Handle(create, NoFaults).s3Object = s3Object

====
